---- MODULE Spec2Model ----
(***************************************************************************)
(* Render-based pose refinement loop of feature_3dgs:                      *)
(*   z_localization/loc_inference_ace.py      (variant "ace")              *)
(*   z_localization/loc_inference_ace_raw.py  (variant "raw")              *)
(* localize builds the collaborators and calls localize_set, which walks   *)
(* the test loader frame by frame: coarse pose, render, match, then either *)
(* fallback or unproject + PnP, then the four error series are appended.   *)
(*                                                                         *)
(* Poses are planar rigid transforms: a rotation by a multiple of 90       *)
(* degrees (0..3) and an integer translation <<x, y>>.  Python locals that *)
(* may be unbound are modelled with an explicit unbound value.             *)
(***************************************************************************)
EXTENDS Integers, Sequences, FiniteSets, TLC

\* ---------------------------------------------------------------- bounds
MaxFrames == 2
MaxPairs == 3
MaxFiles == 4
MaxCoord == 1
MaxCams == 6
MaxIter == 2
MaxSide == 2
MaxLogs == 2
MaxTime == 3

\* ------------------------------------------------------- small input sets
Variants == {"ace", "raw"}
PnpVals == {"iters", "epnp", "pycolmap", "other"}
\* args.stop_kpt_num: one threshold, with match results of fewer, as many
\* and more pairs (0..MaxPairs) around it
StopVals == {1}
\* inlier counts dsacstar may report: none, many
InlierVals == {0, 100}
GtPoses == {[R |-> 0, t |-> <<0, 0>>], [R |-> 1, t |-> <<1, 0>>]}
OutPoses == {[R |-> 0, t |-> <<0, 0>>], [R |-> 1, t |-> <<2, 0>>]}
MatchTypes(v) == IF v = "ace" THEN 0..5 ELSE 0..3
\* depth maps of a render: every pixel valid, or pixel 1 without depth
DepthMaps == {1..MaxPairs, 2..MaxPairs}

\* ------------------------------------------------------------ pose algebra
\* rotation by a quarter turns applied to a vector (R @ v)
RotApply(a, v) ==
    CASE a = 0 -> v
      [] a = 1 -> <<0 - v[2], v[1]>>
      [] a = 2 -> <<0 - v[1], 0 - v[2]>>
      [] a = 3 -> <<v[2], 0 - v[1]>>

\* R.T of a rotation matrix
Transpose(a) == (4 - a) % 4

Neg(v) == <<0 - v[1], 0 - v[2]>>

\* R_inv = out_R.T ; t_inv = -R_inv @ out_t
C2W_to_W2C(p) ==
    [R |-> Transpose(p.R), t |-> Neg(RotApply(Transpose(p.R), p.t))]

\* angular distance between two rotations, in quarter turns
RotErr(a, b) ==
    LET d == (a - b) % 4 IN IF d > 2 THEN 4 - d ELSE d

\* squared Euclidean distance between two translations
TransErr(u, v) ==
    (u[1] - v[1]) * (u[1] - v[1]) + (u[2] - v[2]) * (u[2] - v[2])

\* loc_utils.calculate_pose_errors_ace(gt_pose_44, out_pose): both c2w
calculate_pose_errors_ace(gt, est) ==
    [rot |-> RotErr(est.R, gt.R), trans |-> TransErr(est.t, gt.t)]

\* loc_utils.calculate_pose_errors(gt_R, gt_t, R_est, t_est):
\* c2w rotations, w2c translations
calculate_pose_errors(gR, gt, eR, et) ==
    [rot |-> RotErr(eR, gR), trans |-> TransErr(et, gt)]

\* a camera of the scene: R is the c2w rotation, T the w2c translation
CameraOf(g) == [R |-> g.R, T |-> C2W_to_W2C(g).t]

\* w2c poses the PnP solver may return
SolverPoses == {C2W_to_W2C(g) : g \in GtPoses}

\* rvec = tvec = 0: what cv2.solvePnPRansac leaves when it returns False
ZeroPose == [R |-> 0, t |-> <<0, 0>>]

\* --------------------------------------------------------- unbound locals
Unbound == 0 - 1
\* R_final before any solver has assigned it
NoRotation == [form |-> "unbound", a |-> 0]
\* kind is what the variable result holds; ret is what the matcher call of
\* the frame returned and gt_arg whether gt_pose_44 was one of its arguments
\* (history fields)
UnboundResult ==
    [kind |-> "unbound", ret |-> "", gt_arg |-> FALSE,
     mkpt0 |-> <<>>, mkpt1 |-> <<>>]
NoneResult ==
    [kind |-> "none", ret |-> "none", gt_arg |-> FALSE,
     mkpt0 |-> <<>>, mkpt1 |-> <<>>]
\* result stays None while the matcher, called with gt_pose_44, returned the
\* final errors itself
ErrorsResult ==
    [kind |-> "none", ret |-> "errors", gt_arg |-> TRUE,
     mkpt0 |-> <<>>, mkpt1 |-> <<>>]
NoPose == [R |-> 0, t |-> <<0, 0>>]
NoCamera == [R |-> Unbound, T |-> <<0, 0>>]
NoBy == [frame |-> 0, who |-> "nobody"]
NoMean == [num |-> 0, den |-> 0]
NoLast ==
    [frame |-> 0, path |-> "", steps |-> <<>>, ret |-> "", npairs |-> 0,
     final_by |-> NoBy, elapsed |-> 0, timed |-> 0, solver_ok |-> TRUE,
     inlier_count |-> Unbound, saved |-> FALSE]

\* a correspondence set of k pairs: pair j joins query point QPoint(j) to
\* render pixel j
QPoint(j) == 10 + j
CorrResult(k) ==
    [kind |-> "corr", ret |-> "corr", gt_arg |-> FALSE,
     mkpt0 |-> [j \in 1..k |-> QPoint(j)], mkpt1 |-> [j \in 1..k |-> j]]

VARIABLES
    variant,            \* which script runs
    match_type,         \* args.match_type
    pnp,                \* args.pnp
    stop_kpt_num,       \* args.stop_kpt_num
    save_match,         \* args.save_match
    loader,             \* ace_test_loader: gt_pose_44 of every frame (c2w)
    views,              \* scene.getTestCameras(): [R, T] of every camera
    pc,                 \* position in localize / localize_set
    exc,                \* exception that ended the run ("" if none)
    index,              \* frames fully processed so far (enumerate index)
    rErrs, tErrs, prior_rErr, prior_tErr,
    total_elapsed_time,
    out_pose, rotError, transError,
    inlier_count,       \* quality signal returned by dsacstar.forward_rgb
    gt_R, gt_t,
    w2c,
    render_pose,        \* camera pose the render of this frame was made at
    db_depth,           \* set of render pixels with valid depth
    result,
    db_world, q_matched,
    R_final, t_final,
    rotError_final, transError_final,
    mean_elapsed_time,  \* [num, den] of the reported mean
    logged,             \* calls of loc_utils.log_errors
    \* history variables
    final_by,           \* frame and step that assigned rotError_final
    solver_ok,          \* did the solver of this frame find a pose
    steps,              \* steps taken for the current frame
    last,               \* the frame recorded last, until the next one starts
    timed_count         \* frames that added their time to the total

\* construction of the Scene: readSplitInfo, Scene.__init__ and the walk of
\* localize_set over the cameras it returns
VARIABLES
    shuffle,            \* Scene(..., shuffle=...)
    view_num,           \* Scene(..., view_num=...), 0 for None
    listdir_test,       \* os.listdir(test_images_folder), in the order the
                        \* file system returns it
    n_loader,           \* number of items of the test loader
    test_only_view_num, \* readSplitInfo(..., test_only_view_num=...)
    n_train,            \* number of files in the train image folder
    n_test_poses,       \* number of files in test/poses
    train_views,        \* the train views, each named by its rank in the
                        \* sorted listing of the train image folder
    w2cs_test,          \* the test poses, each named by the rank of its
                        \* file in the sorted listing of test/poses
    test_views,
    test_cam_infos_unsorted,
    test_cam_infos,
    test_cameras,       \* Scene.test_cameras[1.0]
    visited,            \* pairs (loader item, view) localize_set has made
    scene_pc,           \* position in the construction
    scene_exc           \* exception that ended it ("" if none)

sceneVars == <<shuffle, view_num, listdir_test, n_loader,
               test_only_view_num, n_train, n_test_poses, train_views,
               w2cs_test, test_views,
               test_cam_infos_unsorted, test_cam_infos, test_cameras,
               visited, scene_pc, scene_exc>>
\* eval/eval_scannet1500.py: c2w_to_w2c
VARIABLES
    T_cw,               \* the pose handed to c2w_to_w2c
    T_wc,               \* what it returns
    T_back,             \* what it returns for T_wc
    pose_pc

poseVars == <<T_cw, T_wc, T_back, pose_pc>>

\* scene/dataset_readers.py: readColmapSceneInfo, up to the split of the
\* cameras of sparse/0
VARIABLES
    eval,               \* readColmapSceneInfo(..., eval=...)
    llffhold,           \* readColmapSceneInfo(..., llffhold=...)
    colmap_view_num,    \* readColmapSceneInfo(..., view_num=...)
    cam_infos_unsorted, \* what readColmapCameras returns
    colmap_cam_infos,   \* cam_infos of readColmapSceneInfo
    train_cam_infos,
    colmap_test_cam_infos,  \* test_cam_infos of readColmapSceneInfo
    colmap_pc,
    colmap_exc          \* exception that ended it ("" if none)

colmapVars == <<eval, llffhold, colmap_view_num, cam_infos_unsorted,
                colmap_cam_infos, train_cam_infos, colmap_test_cam_infos,
                colmap_pc, colmap_exc>>

\* scene/__init__.py: Scene.__init__, what it writes into the model
\* directory and where the gaussians come from
VARIABLES
    load_iteration,     \* Scene(..., load_iteration=...)
    loaded_iter,        \* self.loaded_iter
    source_kind,        \* which folders args.source_path holds
    init_shuffle,       \* Scene(..., shuffle=...)
    scene_info,         \* what the reader returned: test_cameras, train_cameras
    model_dir,          \* input.ply and cameras.json under args.model_path
    gaussians,          \* the call made on self.gaussians
    ckpt_pc,
    ckpt_exc            \* exception that ended it ("" if none)

ckptVars == <<load_iteration, loaded_iter, source_kind, init_shuffle,
              scene_info, model_dir, gaussians, ckpt_pc, ckpt_exc>>

\* utils/plot.py: plot_points
VARIABLES
    img_shape,          \* C, H, W = img.shape
    img,                \* img[c][y][x], every index from 0
    kpts,               \* the keypoints, x and y in halves of a pixel
    plot_i,             \* pairs of indices0 the loop has done
    plot_pc,
    plot_exc            \* exception that ended it ("" if none)

plotVars == <<img_shape, img, kpts, plot_i, plot_pc, plot_exc>>

\* utils/plot.py: main and save_all
VARIABLES
    mlp_method,         \* --mlp_method
    output_images,      \* --output_images, "" for None (the default)
    use_feature,        \* --use_feature
    listdir_img,        \* the files os.listdir(img_folder) returns
    main_i,             \* targets the loop has done
    outimg_path,        \* the local of main
    saved,              \* the files written, in the order of the writes
    main_pc,
    main_exc            \* exception that ended it ("" if none)

mainVars == <<mlp_method, output_images, use_feature, listdir_img, main_i,
              outimg_path, saved, main_pc, main_exc>>

\* encoders/superpoint/extract_superpoint.py: main
VARIABLES
    targets,            \* the files of args.input, as os.listdir returns them
    loads,              \* what load_image yields for each target
    ext_i,              \* targets the loop has done
    printed,            \* the messages printed, in order
    embeddings,         \* the files written with torch.save, in order
    ext_pc,
    ext_exc             \* exception that ended it ("" if none)

extVars == <<targets, loads, ext_i, printed, embeddings, ext_pc, ext_exc>>

\* z_scannet1500/compute_eval_feature.py: get_elapsed_time_for_tag
VARIABLES
    walk,               \* the files under log_dir, in the order os.walk
                        \* visits them
    start_time,
    end_time,
    walk_i,             \* files the loop has done
    elapsed_time,       \* what the function returns
    elapsed_pc

elapsedVars == <<walk, start_time, end_time, walk_i, elapsed_time, elapsed_pc>>

\* the other programs of the repository
toolVars == <<poseVars, colmapVars, ckptVars, plotVars, mainVars, extVars, elapsedVars>>

argVars == <<variant, match_type, pnp, stop_kpt_num, save_match, loader>>
cfgVars == <<argVars, sceneVars, toolVars>>
seriesVars == <<rErrs, tErrs, prior_rErr, prior_tErr>>
coarseVars == <<out_pose, rotError, transError, inlier_count, gt_R, gt_t>>
renderVars == <<w2c, render_pose, db_depth>>
solveVars == <<db_world, q_matched, R_final, t_final>>
finalVars == <<rotError_final, transError_final, final_by>>
endVars == <<mean_elapsed_time, logged>>
timeVars == <<total_elapsed_time, timed_count>>

vars == <<cfgVars, views, pc, exc, index, seriesVars, timeVars,
          coarseVars, renderVars, result, solveVars, finalVars, endVars,
          solver_ok, steps, last>>

loopVars == <<argVars, views, pc, exc, index, seriesVars, timeVars,
              coarseVars, renderVars, result, solveVars, finalVars,
              endVars, solver_ok, steps, last>>

localizeVars == <<loopVars, toolVars>>

NFrames == Len(loader)

\* the Scene is built and not looked into
SceneIdle ==
    /\ shuffle = FALSE /\ view_num = 0
    /\ listdir_test = <<>> /\ n_loader = 0
    /\ test_only_view_num = FALSE /\ n_train = 0 /\ n_test_poses = 0
    /\ train_views = <<>> /\ w2cs_test = <<>>
    /\ test_views = <<>>
    /\ test_cam_infos_unsorted = <<>> /\ test_cam_infos = <<>>
    /\ test_cameras = <<>>
    /\ visited = <<>>
    /\ scene_pc = "idle" /\ scene_exc = ""

\* a 3x3 matrix and a 3-vector of integers
Mat(rows) == [i \in 1..3 |-> [j \in 1..3 |-> rows[i][j]]]
Eye == Mat(<<<<1, 0, 0>>, <<0, 1, 0>>, <<0, 0, 1>>>>)
ZeroVec == <<0, 0, 0>>
EyePose == [R |-> Eye, t |-> ZeroVec]

\* c2w_to_w2c is not running
PoseIdle ==
    /\ T_cw = EyePose /\ T_wc = EyePose /\ T_back = EyePose
    /\ pose_pc = "idle"

\* view_num=None
NoViewNum == 0 - 1

\* readColmapSceneInfo is not running
ColmapIdle ==
    /\ eval = FALSE /\ llffhold = 8 /\ colmap_view_num = NoViewNum
    /\ cam_infos_unsorted = <<>> /\ colmap_cam_infos = <<>>
    /\ train_cam_infos = <<>> /\ colmap_test_cam_infos = <<>>
    /\ colmap_pc = "idle" /\ colmap_exc = ""

\* load_iteration=None, self.loaded_iter = None
NoIteration == 0 - 2

\* a file nobody wrote, and the Gaussian model before any call on it
NoFile == [state |-> "absent", data |-> <<>>]
NoCall == [op |-> "none", path |-> 0]

\* Scene.__init__ is not running
CkptIdle ==
    /\ load_iteration = NoIteration /\ loaded_iter = NoIteration
    /\ source_kind = "split" /\ init_shuffle = FALSE
    /\ scene_info = [test_cameras |-> <<>>, train_cameras |-> <<>>]
    /\ model_dir = [input_ply |-> NoFile, cameras_json |-> NoFile]
    /\ gaussians = NoCall
    /\ ckpt_pc = "idle" /\ ckpt_exc = ""

\* plot_points is not running
PlotIdle ==
    /\ img_shape = <<0, 0, 0>> /\ img = <<>> /\ kpts = <<>>
    /\ plot_i = 0
    /\ plot_pc = "idle" /\ plot_exc = ""

\* a local of main that no statement has assigned
NoPath == [bound |-> FALSE, folder |-> "", name |-> <<>>]

\* main of utils/plot.py is not running
PlotMainIdle ==
    /\ mlp_method = "SP" /\ output_images = "" /\ use_feature = FALSE
    /\ listdir_img = <<>> /\ main_i = 0
    /\ outimg_path = NoPath
    /\ saved = <<>>
    /\ main_pc = "idle" /\ main_exc = ""

\* main of extract_superpoint is not running
ExtractIdle ==
    /\ targets = <<>> /\ loads = <<>> /\ ext_i = 0
    /\ printed = <<>> /\ embeddings = <<>>
    /\ ext_pc = "idle" /\ ext_exc = ""

\* None, for a time and for the value returned
NoTime == 0 - 1
ReturnsNone == [none |-> TRUE, seconds |-> 0]

\* get_elapsed_time_for_tag is not running
ElapsedIdle ==
    /\ walk = <<>> /\ start_time = NoTime /\ end_time = NoTime
    /\ walk_i = 0
    /\ elapsed_time = ReturnsNone
    /\ elapsed_pc = "idle"

ToolsIdle ==
    /\ PoseIdle
    /\ ColmapIdle
    /\ CkptIdle
    /\ PlotIdle
    /\ PlotMainIdle
    /\ ExtractIdle
    /\ ElapsedIdle

\* every program but this one is idle
PoseOthersIdle ==
    /\ ColmapIdle
    /\ CkptIdle
    /\ PlotIdle
    /\ PlotMainIdle
    /\ ExtractIdle
    /\ ElapsedIdle

\* every program but this one is idle
ColmapOthersIdle ==
    /\ PoseIdle
    /\ CkptIdle
    /\ PlotIdle
    /\ PlotMainIdle
    /\ ExtractIdle
    /\ ElapsedIdle

\* every program but this one is idle
CkptOthersIdle ==
    /\ PoseIdle
    /\ ColmapIdle
    /\ PlotIdle
    /\ PlotMainIdle
    /\ ExtractIdle
    /\ ElapsedIdle

\* every program but this one is idle
PlotOthersIdle ==
    /\ PoseIdle
    /\ ColmapIdle
    /\ CkptIdle
    /\ PlotMainIdle
    /\ ExtractIdle
    /\ ElapsedIdle

\* every program but this one is idle
PlotMainOthersIdle ==
    /\ PoseIdle
    /\ ColmapIdle
    /\ CkptIdle
    /\ PlotIdle
    /\ ExtractIdle
    /\ ElapsedIdle

\* every program but this one is idle
ExtractOthersIdle ==
    /\ PoseIdle
    /\ ColmapIdle
    /\ CkptIdle
    /\ PlotIdle
    /\ PlotMainIdle
    /\ ElapsedIdle

\* every program but this one is idle
ElapsedOthersIdle ==
    /\ PoseIdle
    /\ ColmapIdle
    /\ CkptIdle
    /\ PlotIdle
    /\ PlotMainIdle
    /\ ExtractIdle

\* the state of localize_set before its first statement
LocalsInit ==
    /\ pc = "start"
    /\ exc = ""
    /\ index = 0
    /\ rErrs = <<>> /\ tErrs = <<>> /\ prior_rErr = <<>> /\ prior_tErr = <<>>
    /\ total_elapsed_time = 0
    /\ out_pose = NoPose /\ rotError = Unbound /\ transError = Unbound
    /\ inlier_count = Unbound
    /\ gt_R = Unbound /\ gt_t = <<0, 0>>
    /\ w2c = NoPose /\ render_pose = NoCamera
    /\ db_depth = {}
    /\ result = UnboundResult
    /\ db_world = <<>> /\ q_matched = <<>>
    /\ R_final = NoRotation /\ t_final = <<0, 0>>
    /\ rotError_final = Unbound /\ transError_final = Unbound
    /\ mean_elapsed_time = NoMean
    /\ logged = <<>>
    /\ final_by = NoBy
    /\ solver_ok = TRUE
    /\ steps = <<>>
    /\ last = NoLast
    /\ timed_count = 0

\* localize is called with the parsed arguments: --save_match given or not
InitArgs(with_save_match) ==
    /\ variant \in Variants
    /\ match_type \in MatchTypes(variant)
    /\ pnp \in PnpVals
    /\ stop_kpt_num \in StopVals
    /\ save_match = with_save_match
    /\ \E n \in 0..MaxFrames : loader \in [1..n -> GtPoses]
    /\ views = [i \in 1..Len(loader) |-> CameraOf(loader[i])]
    /\ LocalsInit
    /\ SceneIdle
    /\ ToolsIdle

\* a run without --save_match (the default of the flag)
Init == InitArgs(FALSE)

\* a run with --save_match
InitSaveMatch == InitArgs(TRUE)

\* an exception leaves localize_set: nothing else changes
Raise(e) ==
    /\ pc' = "crashed"
    /\ exc' = e

\* localize: choose encoder and matcher, then call localize_set
MatcherBound ==
    IF variant = "ace" THEN match_type # 3 ELSE match_type \in {0, 1, 2}

Localize ==
    /\ pc = "start"
    /\ IF MatcherBound
         THEN pc' = "loop" /\ exc' = exc
         ELSE Raise("UnboundLocalError")
    /\ UNCHANGED <<cfgVars, views, index, seriesVars, timeVars,
                   coarseVars, renderVars, result, solveVars, finalVars,
                   endVars, solver_ok, steps, last>>

\* for index, (...) in enumerate(ace_test_loader): view = views[index],
\* start = time.time(), gt_R = view.R, gt_t = view.T.  The locals that every
\* iteration assigns before it reads them return to their initial value.
NextFrame ==
    /\ pc = "loop"
    /\ index < NFrames
    /\ gt_R' = views[index + 1].R
    /\ gt_t' = views[index + 1].T
    /\ out_pose' = NoPose /\ rotError' = Unbound /\ transError' = Unbound
    /\ inlier_count' = Unbound
    /\ w2c' = NoPose /\ render_pose' = NoCamera /\ db_depth' = {}
    /\ db_world' = <<>> /\ q_matched' = <<>>
    /\ steps' = <<>>
    /\ solver_ok' = TRUE
    /\ last' = NoLast
    /\ pc' = "frame"
    /\ UNCHANGED <<cfgVars, views, exc, index, seriesVars, timeVars,
                   result, R_final, t_final, finalVars, endVars>>

\* time.time() - start: one tick for every step the frame has taken
Elapsed == Len(steps)

\* dsacstar.forward_rgb fills out_pose; the coarse error is computed
CoarsePose ==
    /\ pc = "frame"
    /\ inlier_count' \in InlierVals
    /\ \E p \in OutPoses :
         /\ out_pose' = p
         /\ rotError' = calculate_pose_errors_ace(loader[index + 1], p).rot
         /\ transError' = calculate_pose_errors_ace(loader[index + 1], p).trans
    /\ steps' = Append(steps, "coarse")
    /\ pc' = "coarse"
    /\ UNCHANGED <<cfgVars, views, exc, index, seriesVars, timeVars,
                   gt_R, gt_t, renderVars, result, solveVars, finalVars,
                   endVars, solver_ok, last>>

\* Camera.update_RT(R, T): the camera takes the given rotation and
\* translation
update_RT(view, R, T) == [view EXCEPT !.R = R, !.T = T]

\* the loop body without the call of view.update_RT
UpdateRT_NoCall ==
    /\ pc = "coarse"
    /\ w2c' = C2W_to_W2C(out_pose)
    /\ views' = views
    /\ steps' = Append(steps, "setview")
    /\ pc' = "viewset"
    /\ UNCHANGED <<cfgVars, exc, index, seriesVars, timeVars, coarseVars,
                   render_pose, db_depth, result, solveVars, finalVars,
                   endVars, solver_ok, last>>

\* R_inv, t_inv, w2c and view.update_RT(out_R, t_inv)
UpdateRT ==
    /\ pc = "coarse"
    /\ w2c' = C2W_to_W2C(out_pose)
    /\ views' = [views EXCEPT ![index + 1] =
                    update_RT(views[index + 1], out_pose.R,
                              C2W_to_W2C(out_pose).t)]
    /\ steps' = Append(steps, "setview")
    /\ pc' = "viewset"
    /\ UNCHANGED <<cfgVars, exc, index, seriesVars, timeVars, coarseVars,
                   render_pose, db_depth, result, solveVars, finalVars,
                   endVars, solver_ok, last>>

\* a loop that renders only frames whose coarse pose has inliers and
\* records the others at once
Render_OnlyIfInliers ==
    /\ pc = "viewset"
    /\ IF inlier_count > 0
         THEN /\ render_pose' = views[index + 1]
              /\ db_depth' \in DepthMaps
              /\ steps' = Append(steps, "render")
              /\ pc' = "rendered"
              /\ UNCHANGED <<index, seriesVars, last>>
         ELSE /\ prior_rErr' = Append(prior_rErr, rotError)
              /\ prior_tErr' = Append(prior_tErr, transError)
              /\ rErrs' = Append(rErrs, rotError)
              /\ tErrs' = Append(tErrs, transError)
              /\ last' = [NoLast EXCEPT !.frame = index + 1,
                                        !.path = "fallback_none",
                                        !.steps = Append(steps, "fallback"),
                                        !.ret = "none",
                                        !.inlier_count = inlier_count]
              /\ index' = index + 1
              /\ pc' = "loop"
              /\ UNCHANGED <<render_pose, db_depth, steps>>
    /\ UNCHANGED <<cfgVars, views, exc, timeVars,
                   coarseVars, w2c, result, solveVars, finalVars, endVars,
                   solver_ok>>

\* render_pkg = render(view, ...): the depth map has valid and invalid pixels
Render ==
    /\ pc = "viewset"
    /\ render_pose' = views[index + 1]
    /\ db_depth' \in DepthMaps
    /\ steps' = Append(steps, "render")
    /\ pc' = "rendered"
    /\ UNCHANGED <<cfgVars, views, exc, index, seriesVars, timeVars,
                   coarseVars, w2c, result, solveVars, finalVars, endVars,
                   solver_ok, last>>

\* what a matcher that returns a result can return
MatcherOutcomes == {NoneResult} \cup {CorrResult(k) : k \in 0..MaxPairs}

\* the if / elif chain over args.match_type of loc_inference_ace.py
MatchAce ==
    /\ variant = "ace"
    /\ IF match_type \in 0..4
         THEN result' \in MatcherOutcomes
         ELSE result' = result
    /\ UNCHANGED finalVars

\* result = None, then the three ifs of loc_inference_ace_raw.py
MatchRaw ==
    /\ variant = "raw"
    /\ IF match_type \in {0, 2}
         THEN result' \in MatcherOutcomes
         ELSE result' = IF match_type = 1 THEN ErrorsResult ELSE NoneResult
    /\ IF match_type = 1
         THEN \E p \in GtPoses :
                /\ rotError_final' =
                       calculate_pose_errors_ace(loader[index + 1], p).rot
                /\ transError_final' =
                       calculate_pose_errors_ace(loader[index + 1], p).trans
                /\ final_by' = [frame |-> index + 1, who |-> "matcher"]
         ELSE UNCHANGED finalVars

Match ==
    /\ pc = "rendered"
    /\ MatchAce \/ MatchRaw
    /\ steps' = Append(steps, "match")
    /\ pc' = "matched"
    /\ UNCHANGED <<cfgVars, views, exc, index, seriesVars, timeVars,
                   coarseVars, renderVars, solveVars, endVars, solver_ok,
                   last>>

\* if not len(result['mkpt1'].cpu()) > args.stop_kpt_num
TooFew(r) == ~(Len(r.mkpt1) > stop_kpt_num)

\* if args.save_match: loc_utils.save_matchimg(...), in the refined branch
\* only: has the frame that took this path written a match image
save_matchimg(path) == save_match /\ path = "refined"

\* ghost record of the frame that is being appended to the series
LastEntry(path, stps, timed) ==
    [frame |-> index + 1, path |-> path, steps |-> stps,
     ret |-> result.ret, npairs |-> Len(result.mkpt1),
     final_by |-> final_by, elapsed |-> Elapsed, timed |-> timed,
     solver_ok |-> solver_ok, inlier_count |-> inlier_count,
     saved |-> save_matchimg(path)]

\* a fallback branch that starts the final series afresh
AppendCoarse_Restart ==
    /\ prior_rErr' = Append(prior_rErr, rotError)
    /\ prior_tErr' = Append(prior_tErr, transError)
    /\ rErrs' = <<rotError>>
    /\ tErrs' = <<transError>>

\* a fallback branch that forgets the final translation series
AppendCoarse_NoFinalT ==
    /\ prior_rErr' = Append(prior_rErr, rotError)
    /\ prior_tErr' = Append(prior_tErr, transError)
    /\ rErrs' = Append(rErrs, rotError)
    /\ tErrs' = tErrs

\* the four appends of a fallback branch
AppendCoarse ==
    /\ prior_rErr' = Append(prior_rErr, rotError)
    /\ prior_tErr' = Append(prior_tErr, transError)
    /\ rErrs' = Append(rErrs, rotError)
    /\ tErrs' = Append(tErrs, transError)

\* loc_inference_ace.py: if result is None: ... continue
FallbackNone ==
    /\ pc = "matched"
    /\ variant = "ace"
    /\ result.kind = "none"
    /\ AppendCoarse
    /\ last' = LastEntry("fallback_none", Append(steps, "fallback"), 0)
    /\ index' = index + 1
    /\ pc' = "loop"
    /\ UNCHANGED <<cfgVars, views, exc, timeVars, coarseVars, renderVars,
                   result, solveVars, finalVars, endVars, solver_ok, steps>>

\* if not len(result['mkpt1']) > args.stop_kpt_num: ... continue
FallbackFew ==
    /\ pc = "matched"
    /\ result.kind = "corr"
    /\ TooFew(result)
    /\ AppendCoarse
    /\ total_elapsed_time' = total_elapsed_time + Elapsed
    /\ timed_count' = timed_count + 1
    /\ last' = LastEntry("fallback_few", Append(steps, "fallback"), Elapsed)
    /\ index' = index + 1
    /\ pc' = "loop"
    /\ UNCHANGED <<cfgVars, views, exc, coarseVars, renderVars, result,
                   solveVars, finalVars, endVars, solver_ok, steps>>

\* loc_inference_ace.py line 140 with no branch of the chain taken
ResultUnbound ==
    /\ pc = "matched"
    /\ result.kind = "unbound"
    /\ Raise("NameError")
    /\ UNCHANGED <<cfgVars, views, index, seriesVars, timeVars,
                   coarseVars, renderVars, result, solveVars, finalVars,
                   endVars, solver_ok, steps, last>>

\* the 3D point a render pixel is lifted to
WorldPoint(px) == [of |-> px]

RECURSIVE Lift(_, _)
\* utils.loc.depth.project_2d_to_3d: pixels with invalid depth are dropped
Lift(mkpt1, depth) ==
    IF mkpt1 = <<>>
      THEN <<>>
      ELSE IF Head(mkpt1) \in depth
        THEN <<WorldPoint(Head(mkpt1))>> \o Lift(Tail(mkpt1), depth)
        ELSE Lift(Tail(mkpt1), depth)

project_2d_to_3d(mkpt1, depth) == Lift(mkpt1, depth)

\* db_world = project_2d_to_3d(result['mkpt1'], ...); q_matched = mkpt0
Unproject ==
    /\ pc = "matched"
    /\ result.kind = "corr"
    /\ ~TooFew(result)
    /\ db_world' = project_2d_to_3d(result.mkpt1, db_depth)
    /\ q_matched' = result.mkpt0
    /\ steps' = Append(steps, "unproject")
    /\ pc' = "unprojected"
    /\ UNCHANGED <<cfgVars, views, exc, index, seriesVars, timeVars,
                   coarseVars, renderVars, result, R_final, t_final,
                   finalVars, endVars, solver_ok, last>>

\* loc_inference_ace_raw.py: "if result is not None" is false
SkipRefine ==
    /\ pc = "matched"
    /\ variant = "raw"
    /\ result.kind = "none"
    /\ pc' = "record"
    /\ UNCHANGED <<cfgVars, views, exc, index, seriesVars, timeVars,
                   coarseVars, renderVars, result, solveVars, finalVars,
                   endVars, solver_ok, steps, last>>

\* cv2.solvePnPRansac(db_world, q_matched, K, ...): the pose that takes
\* world points to the camera, its rotation as a rotation vector
solvePnPRansac(p) == [rvec |-> [form |-> "rvec", a |-> p.R], tvec |-> p.t]

\* the rotation vector kept as it is
Rodrigues_Keep(rvec) == rvec

\* cv2.Rodrigues(rvec): the rotation matrix of a rotation vector
Rodrigues(rvec) == [form |-> "mat", a |-> rvec.a]

\* utils.loc.pycolmap_utils.opencv_to_pycolmap_pnp: the world-to-camera
\* rotation matrix and translation of the estimated pose
opencv_to_pycolmap_pnp(p) == [R |-> [form |-> "mat", a |-> p.R], t |-> p.t]

\* R_final, t_final as the branch of args.pnp leaves them when the solver
\* arrives at the world-to-camera pose p
StrategyOutput(p) ==
    IF pnp \in {"iters", "epnp"}
      THEN [R |-> Rodrigues(solvePnPRansac(p).rvec),
            t |-> solvePnPRansac(p).tvec]
      ELSE opencv_to_pycolmap_pnp(p)

\* the solver returned R_final, t_final; the final error is computed from
\* R_final.T and t_final, which needs a matrix
Solved(p, ok) ==
    /\ R_final' = StrategyOutput(p).R
    /\ t_final' = StrategyOutput(p).t
    /\ solver_ok' = ok
    /\ IF StrategyOutput(p).R.form = "mat"
         THEN /\ rotError_final' =
                     calculate_pose_errors(gt_R, gt_t,
                         Transpose(StrategyOutput(p).R.a),
                         StrategyOutput(p).t).rot
              /\ transError_final' =
                     calculate_pose_errors(gt_R, gt_t,
                         Transpose(StrategyOutput(p).R.a),
                         StrategyOutput(p).t).trans
              /\ final_by' = [frame |-> index + 1, who |-> "solver"]
              /\ steps' = Append(steps, "solve")
              /\ pc' = "record"
              /\ exc' = exc
         ELSE /\ Raise("ValueError")
              /\ UNCHANGED <<finalVars, steps>>

SolveRaises(e, ok) ==
    /\ Raise(e)
    /\ solver_ok' = ok
    /\ UNCHANGED <<R_final, t_final, finalVars, steps>>

\* the if / elif chain over args.pnp, then calculate_pose_errors.  The
\* solvers raise on lists of different length; a solve that finds no pose
\* raises or leaves the zero pose, and its return status is discarded.
Solve ==
    /\ pc = "unprojected"
    /\ IF pnp = "other"
         THEN SolveRaises("NameError", solver_ok)
         ELSE IF Len(db_world) # Len(q_matched)
           THEN SolveRaises("cv2.error", solver_ok)
           ELSE \/ \E p \in SolverPoses : Solved(p, TRUE)
                \/ Solved(ZeroPose, FALSE)
                \/ SolveRaises("cv2.error", FALSE)
    /\ UNCHANGED <<cfgVars, views, index, seriesVars, timeVars,
                   coarseVars, renderVars, result, db_world, q_matched,
                   endVars, last>>

\* the tail of the loop body: prints, elapsed time, the four appends
Record ==
    /\ pc = "record"
    /\ IF rotError_final = Unbound
         THEN /\ Raise("NameError")
              /\ UNCHANGED <<index, seriesVars, timeVars, last>>
         ELSE /\ total_elapsed_time' = total_elapsed_time + Elapsed
              /\ timed_count' = timed_count + 1
              /\ prior_rErr' = Append(prior_rErr, rotError)
              /\ prior_tErr' = Append(prior_tErr, transError)
              /\ rErrs' = Append(rErrs, rotError_final)
              /\ tErrs' = Append(tErrs, transError_final)
              /\ last' = LastEntry(IF result.kind = "corr" THEN "refined"
                                                           ELSE "skipped",
                                   steps, Elapsed)
              /\ index' = index + 1
              /\ pc' = "loop"
              /\ exc' = exc
    /\ UNCHANGED <<cfgVars, views, coarseVars, renderVars, result,
                   solveVars, finalVars, endVars, solver_ok, steps>>

\* a call that hands the two lists over in the wrong order
LogCall_Swapped(text, rs, ts, mean) ==
    [list_text |-> text, rErr |-> ts, tErr |-> rs, elapsed_time |-> mean]

\* a call of loc_utils.log_errors
LogCall(text, rs, ts, mean) ==
    [list_text |-> text, rErr |-> rs, tErr |-> ts, elapsed_time |-> mean]

\* after the loop: mean elapsed time and the two log_errors calls
Summarise ==
    /\ pc = "loop"
    /\ index = NFrames
    /\ IF Len(rErrs) = 0
         THEN /\ Raise("ZeroDivisionError")
              /\ UNCHANGED endVars
         ELSE /\ mean_elapsed_time' =
                     [num |-> total_elapsed_time, den |-> Len(rErrs)]
              /\ logged' =
                     <<LogCall("prior", prior_rErr, prior_tErr, NoMean),
                       LogCall("warp", rErrs, tErrs,
                               [num |-> total_elapsed_time,
                                den |-> Len(rErrs)])>>
              /\ pc' = "done"
              /\ exc' = exc
    /\ UNCHANGED <<cfgVars, views, index, seriesVars, timeVars,
                   coarseVars, renderVars, result, solveVars, finalVars,
                   solver_ok, steps, last>>

\* a failure handler that records a default error for the frame
CollaboratorFails_Fabricate ==
    /\ \/ pc \in {"frame", "viewset", "rendered"}
       \/ pc = "matched" /\ result.kind = "corr" /\ ~TooFew(result)
    /\ Raise("collaborator")
    /\ prior_rErr' = Append(prior_rErr, 0)
    /\ prior_tErr' = Append(prior_tErr, 0)
    /\ rErrs' = Append(rErrs, 0)
    /\ tErrs' = Append(tErrs, 0)
    /\ UNCHANGED <<cfgVars, views, index, timeVars, coarseVars, renderVars,
                   result, solveVars, finalVars, endVars, solver_ok, steps,
                   last>>

\* a collaborator (network, renderer, matcher, unprojector) raises
CollaboratorFails ==
    /\ \/ pc \in {"frame", "viewset", "rendered"}
       \/ pc = "matched" /\ result.kind = "corr" /\ ~TooFew(result)
    /\ Raise("collaborator")
    /\ UNCHANGED <<cfgVars, views, index, seriesVars, timeVars,
                   coarseVars, renderVars, result, solveVars, finalVars,
                   endVars, solver_ok, steps, last>>

Next ==
    \/ Localize
    \/ NextFrame
    \/ CoarsePose
    \/ UpdateRT
    \/ Render
    \/ Match
    \/ FallbackNone
    \/ FallbackFew
    \/ ResultUnbound
    \/ Unproject
    \/ SkipRefine
    \/ Solve
    \/ Record
    \/ Summarise
    \/ CollaboratorFails

Spec == Init /\ [][Next]_vars

SpecSaveMatch == InitSaveMatch /\ [][Next]_vars

\* localize is not running and no Scene is being built
MainIdle ==
    /\ variant = "ace" /\ match_type = 0 /\ pnp = "iters"
    /\ stop_kpt_num = 1 /\ save_match = FALSE
    /\ loader = <<>> /\ views = <<>>
    /\ LocalsInit
    /\ SceneIdle

\* ------------------------------------------------ c2w_to_w2c (eval_scannet1500)
\* R.T
MatT(R) == [i \in 1..3 |-> [j \in 1..3 |-> R[j][i]]]

\* A @ B
MatMul(A, B) ==
    [i \in 1..3 |-> [j \in 1..3 |->
        A[i][1] * B[1][j] + A[i][2] * B[2][j] + A[i][3] * B[3][j]]]

\* A @ v
MatVec(A, v) ==
    [i \in 1..3 |-> A[i][1] * v[1] + A[i][2] * v[2] + A[i][3] * v[3]]

VecNeg(v) == [i \in 1..3 |-> 0 - v[i]]
VecAdd(u, v) == [i \in 1..3 |-> u[i] + v[i]]

Det(R) ==
    R[1][1] * (R[2][2] * R[3][3] - R[2][3] * R[3][2])
    - R[1][2] * (R[2][1] * R[3][3] - R[2][3] * R[3][1])
    + R[1][3] * (R[2][1] * R[3][2] - R[2][2] * R[3][1])

\* R is orthonormal with determinant +1
IsRotation(R) == MatMul(R, MatT(R)) = Eye /\ Det(R) = 1

\* the rotations with integer entries
Rotations == {R \in [1..3 -> [1..3 -> -1..1]] : IsRotation(R)}

\* the translations of the poses tried
Translations == [1..3 -> (0 - MaxCoord)..MaxCoord]

\* the product of two 4x4 poses [R t; 0 1]
PoseMul(A, B) ==
    [R |-> MatMul(A.R, B.R), t |-> VecAdd(MatVec(A.R, B.t), A.t)]

\* a conversion that forgets the sign of the translation
c2w_to_w2c_NoSign(T) ==
    [R |-> MatT(T.R), t |-> MatVec(MatT(T.R), T.t)]

\* R_inv = R.T ; t_inv = -R_inv @ t ; T_wc = [R_inv t_inv; 0 1]
c2w_to_w2c(T) ==
    [R |-> MatT(T.R), t |-> VecNeg(MatVec(MatT(T.R), T.t))]

\* the rotation by q quarter turns about the z axis, and a planar
\* translation, as the poses of localize_set are written above
RotZ(q) ==
    CASE q = 0 -> Eye
      [] q = 1 -> Mat(<<<<0, 0 - 1, 0>>, <<1, 0, 0>>, <<0, 0, 1>>>>)
      [] q = 2 -> Mat(<<<<0 - 1, 0, 0>>, <<0, 0 - 1, 0>>, <<0, 0, 1>>>>)
      [] q = 3 -> Mat(<<<<0, 1, 0>>, <<0 - 1, 0, 0>>, <<0, 0, 1>>>>)
Planar(p) == [R |-> RotZ(p.R), t |-> <<p.t[1], p.t[2], 0>>]
IsPlanar(T) == T.t[3] = 0 /\ \E q \in 0..3 : T.R = RotZ(q)
PlanarOf(T) ==
    [R |-> CHOOSE q \in 0..3 : T.R = RotZ(q), t |-> <<T.t[1], T.t[2]>>]

posesRest == <<loopVars, sceneVars, colmapVars, ckptVars, plotVars, mainVars, extVars, elapsedVars>>

InitPose ==
    /\ T_cw \in [R : Rotations, t : Translations]
    /\ T_wc = EyePose /\ T_back = EyePose
    /\ pose_pc = "start"
    /\ MainIdle
    /\ PoseOthersIdle

\* T0 = c2w_to_w2c(poses[...])
Convert ==
    /\ pose_pc = "start"
    /\ T_wc' = c2w_to_w2c(T_cw)
    /\ pose_pc' = "converted"
    /\ UNCHANGED <<T_cw, T_back, posesRest>>

\* the conversion applied to its own result
ConvertBack ==
    /\ pose_pc = "converted"
    /\ T_back' = c2w_to_w2c(T_wc)
    /\ pose_pc' = "back"
    /\ UNCHANGED <<T_cw, T_wc, posesRest>>

NextPose ==
    \/ Convert
    \/ ConvertBack

SpecPose == InitPose /\ [][NextPose]_vars

\* ------------------------------------------------- construction of a Scene
\* A file name is a sequence of pieces; the pieces are ordered as their
\* first differing character orders them in Python's string comparison
\* ('-' < '.' < 'a' < 'b', and ".color" < ".png").
Rank(piece) ==
    CASE piece = "-" -> 1
      [] piece = ".color" -> 2
      [] piece = ".png" -> 3
      [] piece = "a" -> 4
      [] piece = "b" -> 5

\* the image files a test folder may hold
FileNames ==
    {<<"a", ".png">>, <<"a", "-", "b", ".png">>, <<"a", ".color", ".png">>,
     <<"b", ".png">>}

\* s < t for two strings
StrLess(s, t) ==
    \E k \in 1..Len(t) :
        /\ \A j \in 1..(k - 1) : j <= Len(s) /\ s[j] = t[j]
        /\ (k > Len(s) \/ Rank(s[k]) < Rank(t[k]))

\* s.split(piece)[0]
SplitFirst(s, piece) ==
    IF \E k \in 1..Len(s) : s[k] = piece
      THEN SubSeq(s, 1, (CHOOSE k \in 1..Len(s) :
                            /\ s[k] = piece
                            /\ \A j \in 1..(k - 1) : s[j] # piece) - 1)
      ELSE s

\* os.path.basename(image_path).split(".png")[0].split(".color")[0]
ImageName(view) == SplitFirst(SplitFirst(view, ".png"), ".color")

\* sorted(s, key) with key[i] the key of s[i]: Python's sort is stable, so
\* the place of s[i] is the number of items with a smaller key plus the
\* earlier items with an equal key
Sorted(s, key) ==
    LET n == Len(s)
        place(i) ==
            Cardinality({j \in 1..n : \/ StrLess(key[j], key[i])
                                      \/ j < i /\ ~StrLess(key[i], key[j])})
                + 1
    IN [k \in 1..n |-> s[CHOOSE i \in 1..n : place(i) = k]]

\* key = lambda x : x.image_name
ImageNames(cam_infos) ==
    [i \in 1..Len(cam_infos) |-> cam_infos[i].image_name]

\* [s[i] for i in range(0, len(s), step)]
EveryNth(s, step) ==
    [k \in 1..((Len(s) + step - 1) \div step) |-> s[(k - 1) * step + 1]]

\* the orders random.shuffle may leave a list in
Shuffles(s) ==
    {[i \in 1..Len(s) |-> s[p[i]]] : p \in Permutations(1..Len(s))}

\* the listings of a folder: distinct file names in any order
Listings ==
    {l \in UNION {[1..n -> FileNames] : n \in 0..MaxFiles} :
        \A i, j \in 1..Len(l) : i # j => l[i] # l[j]}

\* cameraList_from_camInfos: one Camera for every CameraInfo, in order
cameraList_from_camInfos(cam_infos) ==
    [i \in 1..Len(cam_infos) |->
        [uid |-> cam_infos[i].uid, image_name |-> cam_infos[i].image_name,
         image_path |-> cam_infos[i].image_path, w2c |-> cam_infos[i].w2c]]

\* list(range(0, n, step)), written with the indices of a sequence (from 1)
RangeStep(n, step) == [k \in 1..((n + step - 1) \div step) |-> (k - 1) * step + 1]

\* [s[i] for i in idx]
Pick(s, idx) == [k \in 1..Len(idx) |-> s[idx[k]]]

\* the numbers of train images and of test pose files tried
TrainCounts == {1, MaxFiles}
PoseCounts == {MaxFiles - 1, MaxFiles}

sceneData == <<test_views, test_cam_infos_unsorted, test_cam_infos,
               test_cameras, visited>>
sceneArgs == <<shuffle, view_num, listdir_test, n_loader,
               test_only_view_num, n_train, n_test_poses>>

InitScene ==
    /\ shuffle \in BOOLEAN
    /\ view_num \in 0..MaxFiles
    /\ listdir_test \in Listings
    /\ n_loader \in 0..MaxFiles
    /\ test_only_view_num \in BOOLEAN
    /\ n_train \in TrainCounts
    /\ n_test_poses \in PoseCounts
    /\ train_views = <<>> /\ w2cs_test = <<>>
    /\ test_views = <<>>
    /\ test_cam_infos_unsorted = <<>> /\ test_cam_infos = <<>>
    /\ test_cameras = <<>>
    /\ visited = <<>>
    /\ scene_pc = "start" /\ scene_exc = ""
    /\ variant = "ace" /\ match_type = 0 /\ pnp = "iters"
    /\ stop_kpt_num = 1 /\ save_match = FALSE
    /\ loader = <<>> /\ views = <<>>
    /\ LocalsInit
    /\ ToolsIdle

SceneRaise(e) ==
    /\ scene_pc' = "crashed"
    /\ scene_exc' = e

\* train_views = sorted(os.listdir(...)); test_views = sorted(...);
\* K_test, w2cs_test = readSplit_cams_params(...): one pose for every file
\* of the sorted listing of test/poses
ListViews ==
    /\ scene_pc = "start"
    /\ train_views' = [i \in 1..n_train |-> i]
    /\ test_views' = Sorted(listdir_test, listdir_test)
    /\ w2cs_test' = [i \in 1..n_test_poses |-> i]
    /\ scene_pc' = "listed"
    /\ UNCHANGED <<sceneArgs, test_cam_infos_unsorted, test_cam_infos,
                   test_cameras, visited, scene_exc, localizeVars>>

\* a subsampling that forgets the poses of the views it keeps
Subsample_ViewsOnly ==
    /\ scene_pc = "listed"
    /\ IF view_num = 0
         THEN /\ UNCHANGED <<train_views, test_views, w2cs_test>>
              /\ scene_pc' = "sampled" /\ scene_exc' = scene_exc
         ELSE LET train_step == Len(train_views) \div view_num
                  test_step == Len(test_views) \div view_num
              IN
              IF (~test_only_view_num /\ train_step = 0) \/ test_step = 0
                THEN /\ SceneRaise("ValueError")
                     /\ UNCHANGED <<train_views, test_views, w2cs_test>>
                ELSE /\ train_views' =
                            IF test_only_view_num THEN train_views
                            ELSE EveryNth(train_views, train_step)
                     /\ test_views' = EveryNth(test_views, test_step)
                     /\ w2cs_test' = w2cs_test
                     /\ scene_pc' = "sampled" /\ scene_exc' = scene_exc
    /\ UNCHANGED <<sceneArgs, test_cam_infos_unsorted, test_cam_infos,
                   test_cameras, visited, localizeVars>>

\* if view_num is not None: keep every train_step-th train view (unless
\* test_only_view_num) and every test_step-th test view with its pose
Subsample ==
    /\ scene_pc = "listed"
    /\ IF view_num = 0
         THEN /\ UNCHANGED <<train_views, test_views, w2cs_test>>
              /\ scene_pc' = "sampled" /\ scene_exc' = scene_exc
         ELSE LET train_step == Len(train_views) \div view_num
                  test_step == Len(test_views) \div view_num
              IN
              IF (~test_only_view_num /\ train_step = 0) \/ test_step = 0
                THEN /\ SceneRaise("ValueError")
                     /\ UNCHANGED <<train_views, test_views, w2cs_test>>
                ELSE IF \E k \in 1..Len(RangeStep(Len(test_views), test_step)) :
                           RangeStep(Len(test_views), test_step)[k]
                               > Len(w2cs_test)
                  THEN /\ SceneRaise("IndexError")
                       /\ UNCHANGED <<train_views, test_views, w2cs_test>>
                  ELSE /\ train_views' =
                              IF test_only_view_num THEN train_views
                              ELSE EveryNth(train_views, train_step)
                       /\ test_views' = EveryNth(test_views, test_step)
                       /\ w2cs_test' =
                              Pick(w2cs_test,
                                   RangeStep(Len(test_views), test_step))
                       /\ scene_pc' = "sampled" /\ scene_exc' = scene_exc
    /\ UNCHANGED <<sceneArgs, test_cam_infos_unsorted, test_cam_infos,
                   test_cameras, visited, localizeVars>>

\* for i, view in enumerate(test_views): ... append(cam_info)
ReadCams ==
    /\ scene_pc = "sampled"
    /\ IF Len(test_views) > Len(w2cs_test)
         THEN /\ SceneRaise("IndexError")
              /\ UNCHANGED test_cam_infos_unsorted
         ELSE /\ test_cam_infos_unsorted' =
                     [i \in 1..Len(test_views) |->
                         [uid |-> i - 1,
                          image_name |-> ImageName(test_views[i]),
                          image_path |-> test_views[i],
                          w2c |-> w2cs_test[i]]]
              /\ scene_pc' = "read" /\ scene_exc' = scene_exc
    /\ UNCHANGED <<sceneArgs, train_views, w2cs_test, test_views,
                   test_cam_infos, test_cameras, visited, localizeVars>>

\* the cameras kept in the order of their file names
SortCams_ByFile ==
    /\ scene_pc = "read"
    /\ test_cam_infos' = test_cam_infos_unsorted
    /\ scene_pc' = "sorted"
    /\ UNCHANGED <<sceneArgs, train_views, w2cs_test, test_views,
                   test_cam_infos_unsorted, test_cameras, visited,
                   scene_exc, localizeVars>>

\* test_cam_infos = sorted(test_cam_infos_unsorted, key = image_name)
SortCams ==
    /\ scene_pc = "read"
    /\ test_cam_infos' = Sorted(test_cam_infos_unsorted,
                                ImageNames(test_cam_infos_unsorted))
    /\ scene_pc' = "sorted"
    /\ UNCHANGED <<sceneArgs, train_views, w2cs_test, test_views,
                   test_cam_infos_unsorted, test_cameras, visited,
                   scene_exc, localizeVars>>

\* Scene.__init__: if shuffle: random.shuffle(scene_info.test_cameras)
Shuffle ==
    /\ scene_pc = "sorted"
    /\ IF shuffle
         THEN test_cam_infos' \in Shuffles(test_cam_infos)
         ELSE test_cam_infos' = test_cam_infos
    /\ scene_pc' = "shuffled"
    /\ UNCHANGED <<sceneArgs, train_views, w2cs_test, test_views,
                   test_cam_infos_unsorted, test_cameras, visited,
                   scene_exc, localizeVars>>

\* Scene.__init__: self.test_cameras[1.0] = cameraList_from_camInfos(...)
LoadCams ==
    /\ scene_pc = "shuffled"
    /\ test_cameras' = cameraList_from_camInfos(test_cam_infos)
    /\ scene_pc' = "loaded"
    /\ UNCHANGED <<sceneArgs, train_views, w2cs_test, test_views,
                   test_cam_infos_unsorted, test_cam_infos, visited,
                   scene_exc, localizeVars>>

\* localize_set: for index, (...) in enumerate(loader): view = views[index]
VisitFrame ==
    /\ scene_pc = "loaded"
    /\ Len(visited) < n_loader
    /\ LET idx == Len(visited) IN
       IF idx < Len(test_cameras)
         THEN /\ visited' = Append(visited, [index |-> idx,
                                             view |-> test_cameras[idx + 1]])
              /\ scene_pc' = scene_pc /\ scene_exc' = scene_exc
         ELSE SceneRaise("IndexError") /\ visited' = visited
    /\ UNCHANGED <<sceneArgs, train_views, w2cs_test, test_views,
                   test_cam_infos_unsorted, test_cam_infos, test_cameras,
                   localizeVars>>

NextScene ==
    \/ ListViews
    \/ Subsample
    \/ ReadCams
    \/ SortCams
    \/ Shuffle
    \/ LoadCams
    \/ VisitFrame

SpecScene == InitScene /\ [][NextScene]_vars

\* ------------------------------------- readColmapSceneInfo (dataset_readers)
\* image names of the cameras of sparse/0: basename.split(".")[0]
ColmapNames == {<<"a">>, <<"a", "b">>}

\* values of llffhold tried (8 is the default)
HoldVals == {0, 2, 3, 8}

\* values of view_num tried
ColmapViewNums == {NoViewNum, 2}

\* what readColmapCameras may return: the cameras in the order of
\* cam_extrinsics, extr naming the image each was built from
ColmapCams ==
    UNION {{[i \in 1..n |-> [extr |-> i, image_name |-> names[i]]] :
               names \in [1..n -> ColmapNames]} : n \in 0..MaxCams}

\* [c for idx, c in enumerate(s) if idx in I], idx counted from 0
Keep(s, I) ==
    [k \in 1..Cardinality(I) |->
        s[1 + CHOOSE i \in I : Cardinality({j \in I : j < i}) = k - 1]]

\* s[:n]
Prefix(s, n) == SubSeq(s, 1, IF n < Len(s) THEN n ELSE Len(s))

colmapRest == <<loopVars, sceneVars, poseVars, ckptVars, plotVars, mainVars, extVars, elapsedVars>>

InitColmap ==
    /\ eval \in BOOLEAN
    /\ llffhold \in HoldVals
    /\ colmap_view_num \in ColmapViewNums
    /\ cam_infos_unsorted \in ColmapCams
    /\ colmap_cam_infos = <<>>
    /\ train_cam_infos = <<>> /\ colmap_test_cam_infos = <<>>
    /\ colmap_pc = "start" /\ colmap_exc = ""
    /\ MainIdle
    /\ ColmapOthersIdle

ColmapRaise(e) ==
    /\ colmap_exc' = e
    /\ colmap_pc' = "raised"

\* cam_infos = sorted(...); cam_infos[0].semantic_feature
SortColmap ==
    /\ colmap_pc = "start"
    /\ colmap_cam_infos' = Sorted(cam_infos_unsorted, ImageNames(cam_infos_unsorted))
    /\ IF Len(cam_infos_unsorted) = 0
         THEN ColmapRaise("IndexError")
         ELSE colmap_pc' = "sorted" /\ UNCHANGED colmap_exc
    /\ UNCHANGED <<eval, llffhold, colmap_view_num, cam_infos_unsorted,
                   train_cam_infos, colmap_test_cam_infos, colmapRest>>

\* the indices idx of cam_infos with (idx % llffhold == 2) = is_test
HoldIdx_FromZero(is_test) ==
    {idx \in 0..(Len(colmap_cam_infos) - 1) : (idx % llffhold = 0) = is_test}

HoldIdx(is_test) ==
    {idx \in 0..(Len(colmap_cam_infos) - 1) : (idx % llffhold = 2) = is_test}

\* if eval: the split, and with a view_num the shuffles and the cuts
SplitEval ==
    /\ colmap_pc = "sorted"
    /\ eval
    /\ IF llffhold = 0
         THEN /\ ColmapRaise("ZeroDivisionError")
              /\ UNCHANGED <<train_cam_infos, colmap_test_cam_infos>>
         ELSE /\ colmap_pc' = "split"
              /\ UNCHANGED colmap_exc
              /\ IF colmap_view_num # NoViewNum
                   THEN /\ \E tr \in Shuffles(Keep(colmap_cam_infos, HoldIdx(FALSE))) :
                              train_cam_infos' = Prefix(tr, colmap_view_num)
                        /\ \E te \in Shuffles(Keep(colmap_cam_infos, HoldIdx(TRUE))) :
                              colmap_test_cam_infos' = Prefix(te, colmap_view_num)
                   ELSE /\ train_cam_infos' = Keep(colmap_cam_infos, HoldIdx(FALSE))
                        /\ colmap_test_cam_infos' = Keep(colmap_cam_infos, HoldIdx(TRUE))
    /\ UNCHANGED <<eval, llffhold, colmap_view_num, cam_infos_unsorted,
                   colmap_cam_infos, colmapRest>>

\* else: every camera trains (load_testcam=False: the test folder is not read)
SplitAll ==
    /\ colmap_pc = "sorted"
    /\ ~eval
    /\ train_cam_infos' = colmap_cam_infos
    /\ colmap_test_cam_infos' = <<>>
    /\ colmap_pc' = "split"
    /\ UNCHANGED <<eval, llffhold, colmap_view_num, cam_infos_unsorted,
                   colmap_cam_infos, colmap_exc, colmapRest>>

NextColmap ==
    \/ SortColmap
    \/ SplitEval
    \/ SplitAll

SpecColmap == InitColmap /\ [][NextColmap]_vars

\* ----------------------------------------------- Scene.__init__ (scene)
\* iterations tried: None, -1 (search), 0 and the saved iterations
IterVals == {NoIteration, 0 - 1} \cup 0..MaxIter

\* bool(x) of an iteration
Truthy(x) == x # NoIteration /\ x # 0

\* the camera lists a reader may return
CamLists(names) ==
    {l \in UNION {[1..n -> names] : n \in 0..2} :
        \A i, j \in 1..Len(l) : i # j => l[i] # l[j]}

TestCams == {"t1", "t2"}
TrainCams == {"r1", "r2"}

\* the model directory before the Scene is built: empty, or holding the
\* files of an earlier run
OldFile == [state |-> "old", data |-> <<>>]
ModelDirs == {[input_ply |-> f, cameras_json |-> f] : f \in {NoFile, OldFile}}

ckptRest == <<loopVars, sceneVars, poseVars, colmapVars, plotVars, mainVars, extVars, elapsedVars>>

InitCkpt ==
    /\ load_iteration \in IterVals
    /\ loaded_iter = NoIteration
    /\ source_kind \in {"split", "colmap", "unknown"}
    /\ init_shuffle \in BOOLEAN
    /\ scene_info \in [test_cameras : CamLists(TestCams),
                       train_cameras : CamLists(TrainCams)]
    /\ model_dir \in ModelDirs
    /\ gaussians = NoCall
    /\ ckpt_pc = "start" /\ ckpt_exc = ""
    /\ MainIdle
    /\ CkptOthersIdle

\* what searchForMaxIteration may return for the point_cloud folder
searchForMaxIteration == 0..MaxIter

\* if load_iteration: ... self.loaded_iter = ...
Resolve ==
    /\ ckpt_pc = "start"
    /\ \/ /\ ~Truthy(load_iteration)
          /\ UNCHANGED <<loaded_iter, ckpt_exc>>
          /\ ckpt_pc' = "resolved"
       \/ /\ Truthy(load_iteration) /\ load_iteration = 0 - 1
          /\ \/ /\ loaded_iter' \in searchForMaxIteration
                /\ ckpt_pc' = "resolved"
                /\ UNCHANGED ckpt_exc
             \/ /\ ckpt_exc' = "searchForMaxIteration"
                /\ ckpt_pc' = "raised"
                /\ UNCHANGED loaded_iter
       \/ /\ Truthy(load_iteration) /\ load_iteration # 0 - 1
          /\ loaded_iter' = load_iteration
          /\ ckpt_pc' = "resolved"
          /\ UNCHANGED ckpt_exc
    /\ UNCHANGED <<load_iteration, source_kind, init_shuffle, scene_info,
                   model_dir, gaussians, ckptRest>>

\* the reader is chosen by the folders of source_path
ReadInfo ==
    /\ ckpt_pc = "resolved"
    /\ IF source_kind = "unknown"
         THEN ckpt_exc' = "AssertionError" /\ ckpt_pc' = "raised"
         ELSE ckpt_pc' = "read" /\ UNCHANGED ckpt_exc
    /\ UNCHANGED <<load_iteration, loaded_iter, source_kind, init_shuffle,
                   scene_info, model_dir, gaussians, ckptRest>>

\* camera_to_JSON(id, cam): the entry of cameras.json for a camera
camera_to_JSON(id, cam) == [id |-> id, cam |-> cam]

\* camlist: the test cameras, then the train cameras
camlist == scene_info.test_cameras \o scene_info.train_cameras

\* json_cams, ids counted from 0
json_cams == [k \in 1..Len(camlist) |-> camera_to_JSON(k - 1, camlist[k])]

\* if not self.loaded_iter:
NotLoaded_Always == TRUE

NotLoaded == ~Truthy(loaded_iter)

\* lines 55-68: input.ply and cameras.json
WriteInputs ==
    /\ ckpt_pc = "read"
    /\ IF NotLoaded
         THEN model_dir' =
                 [input_ply |-> [state |-> "written", data |-> <<"ply_path">>],
                  cameras_json |-> [state |-> "written", data |-> json_cams]]
         ELSE UNCHANGED model_dir
    /\ ckpt_pc' = "written"
    /\ UNCHANGED <<load_iteration, loaded_iter, source_kind, init_shuffle,
                   scene_info, gaussians, ckpt_exc, ckptRest>>

\* if shuffle: both camera lists of scene_info are shuffled in place
ShuffleCams ==
    /\ ckpt_pc = "written"
    /\ IF init_shuffle
         THEN \E tr \in Shuffles(scene_info.train_cameras),
                 te \in Shuffles(scene_info.test_cameras) :
                  scene_info' = [test_cameras |-> te, train_cameras |-> tr]
         ELSE UNCHANGED scene_info
    /\ ckpt_pc' = "shuffled"
    /\ UNCHANGED <<load_iteration, loaded_iter, source_kind, init_shuffle,
                   model_dir, gaussians, ckpt_exc, ckptRest>>

\* lines 95-102: load_ply of the iteration, or create_from_pcd
LoadGaussians ==
    /\ ckpt_pc = "shuffled"
    /\ gaussians' = IF Truthy(loaded_iter)
                      THEN [op |-> "load_ply", path |-> loaded_iter]
                      ELSE [op |-> "create_from_pcd", path |-> 0]
    /\ ckpt_pc' = "done"
    /\ UNCHANGED <<load_iteration, loaded_iter, source_kind, init_shuffle,
                   scene_info, model_dir, ckpt_exc, ckptRest>>

NextCkpt ==
    \/ Resolve
    \/ ReadInfo
    \/ WriteInputs
    \/ ShuffleCams
    \/ LoadGaussians

SpecCkpt == InitCkpt /\ [][NextCkpt]_vars

\* ------------------------------------------------------ plot_points (plot)
\* the value of a pixel nobody has written
OldPixel == 7

\* the numbers of channels and the sides of the images tried
Channels == {1, 2, 3}
Sides == {1, MaxSide}

\* a coordinate is a number of half pixels: from -1.5 to half a pixel
\* beyond the longest side
Halves == (0 - 3)..(2 * MaxSide + 1)
KptLists == UNION {[1..n -> [x : Halves, y : Halves]] : n \in 0..2}

\* torch.floor(c).long() of a coordinate given in halves
Floor(h) == h \div 2

\* an image of the shape <<C, H, W>> with every pixel v
Blank(shape, v) ==
    [c \in 0..(shape[1] - 1) |->
        [y \in 0..(shape[2] - 1) |-> [x \in 0..(shape[3] - 1) |-> v]]]

plotRest == <<loopVars, sceneVars, poseVars, colmapVars, ckptVars, mainVars, extVars, elapsedVars>>

InitPlot ==
    /\ img_shape \in Channels \X Sides \X Sides
    /\ img = Blank(img_shape, OldPixel)
    /\ kpts \in KptLists
    /\ plot_i = 0
    /\ plot_pc = "start" /\ plot_exc = ""
    /\ MainIdle
    /\ PlotOthersIdle

\* indices0, as (dy, dx) added to (y_floor, x_floor)
indices0 == <<<<0, 0>>, <<0, 1>>, <<1, 0>>, <<1, 1>>>>

\* (yi[valid], xi[valid]) for one pair of indices0
ValidPixels(d) ==
    {p \in {<<Floor(kpts[k].y) + d[1], Floor(kpts[k].x) + d[2]>> :
               k \in 1..Len(kpts)} :
        /\ p[2] >= 0 /\ p[2] < img_shape[3]
        /\ p[1] >= 0 /\ p[1] < img_shape[2]}

\* the place an index i selects on an axis of n places: a negative index
\* counts from the end
Wrap(i, n) == IF i < 0 THEN i + n ELSE i

\* im[c, ys, xs] = v
SetPixels(im, c, pixels, v) ==
    LET H == img_shape[2]
        W == img_shape[3]
        places == {<<Wrap(p[1], H), Wrap(p[2], W)>> : p \in pixels}
    IN [cc \in DOMAIN im |->
           [y \in DOMAIN im[cc] |->
               [x \in DOMAIN im[cc][y] |->
                   IF cc = c /\ <<y, x>> \in places THEN v ELSE im[cc][y][x]]]]

\* one turn of the loop over indices0: channel 0, and with C > 1 channels 1
\* and 2; channel 2 of a two-channel image is an IndexError, raised after
\* the writes to channels 0 and 1
PlotPair ==
    /\ plot_pc = "start"
    /\ plot_i < Len(indices0)
    /\ LET pixels == ValidPixels(indices0[plot_i + 1])
           C == img_shape[1]
           ch0 == SetPixels(img, 0, pixels, 1)
           ch1 == SetPixels(ch0, 1, pixels, 0)
       IN IF C > 1
            THEN IF C > 2
                   THEN /\ img' = SetPixels(ch1, 2, pixels, 0)
                        /\ plot_i' = plot_i + 1
                        /\ UNCHANGED <<plot_pc, plot_exc>>
                   ELSE /\ img' = ch1
                        /\ plot_exc' = "IndexError"
                        /\ plot_pc' = "raised"
                        /\ UNCHANGED plot_i
            ELSE /\ img' = ch0
                 /\ plot_i' = plot_i + 1
                 /\ UNCHANGED <<plot_pc, plot_exc>>
    /\ UNCHANGED <<img_shape, kpts, plotRest>>

\* the loop is over and plot_points returns
PlotReturn ==
    /\ plot_pc = "start"
    /\ plot_i = Len(indices0)
    /\ plot_pc' = "done"
    /\ UNCHANGED <<img_shape, img, kpts, plot_i, plot_exc, plotRest>>

NextPlot ==
    \/ PlotPair
    \/ PlotReturn

SpecPlot == InitPlot /\ [][NextPlot]_vars

\* ------------------------------------------------- main and save_all (plot)
\* values of --mlp_method tried: the default and the two other extractors
MlpMethods == {"SP", "ALIKED", "DISK"}

\* values of --output_images tried: not given, and a folder name
OutputImages == {"", "vis"}

\* t.split(os.sep)[-1].split(".")[0]
ImgName(t) == SplitFirst(SplitFirst(t, ".color"), ".png")

mainRest == <<loopVars, sceneVars, poseVars, colmapVars, ckptVars, plotVars, extVars, elapsedVars>>

InitPlotMain ==
    /\ mlp_method \in MlpMethods
    /\ output_images \in OutputImages
    /\ use_feature \in BOOLEAN
    /\ listdir_img \in Listings
    /\ main_i = 0
    /\ outimg_path = NoPath
    /\ saved = <<>>
    /\ main_pc = "start" /\ main_exc = ""
    /\ MainIdle
    /\ PlotMainOthersIdle

\* lines 85-129: the extractor and the mlp are chosen; no branch of lines
\* 107-120 assigns mlp for "ALIKED" or "DISK", and line 121 reads it
ChooseModels ==
    /\ main_pc = "start"
    /\ IF mlp_method = "SP"
         THEN main_pc' = "loop" /\ UNCHANGED main_exc
         ELSE main_pc' = "raised" /\ main_exc' = "UnboundLocalError"
    /\ UNCHANGED <<mlp_method, output_images, use_feature, listdir_img, main_i,
                   outimg_path, saved, mainRest>>

\* the files save_all writes for one target
save_all(sp_path, out_path) ==
    (IF use_feature THEN <<[file |-> "fmap.pt", of |-> sp_path]>> ELSE <<>>)
    \o <<[file |-> "smap.pt", of |-> sp_path]>>
    \o (IF out_path.folder # ""
          THEN <<[file |-> "color.png", of |-> out_path.name]>>
          ELSE <<>>)

\* if args.output_images: outimg_path = ...
Assigned(img_name) ==
    IF output_images # ""
      THEN [bound |-> TRUE, folder |-> output_images, name |-> img_name]
      ELSE outimg_path

\* one turn of the loop over target_images (lines 131-148)
ProcessImage ==
    /\ main_pc = "loop"
    /\ main_i < Len(listdir_img)
    /\ LET img_name == ImgName(listdir_img[main_i + 1])
           path == Assigned(img_name)
       IN /\ outimg_path' = path
          /\ IF path.bound
               THEN /\ saved' = saved \o save_all(img_name, path)
                    /\ main_i' = main_i + 1
                    /\ UNCHANGED <<main_pc, main_exc>>
               ELSE /\ main_pc' = "raised"
                    /\ main_exc' = "UnboundLocalError"
                    /\ UNCHANGED <<saved, main_i>>
    /\ UNCHANGED <<mlp_method, output_images, use_feature, listdir_img,
                   mainRest>>

\* the loop is over
MainReturn ==
    /\ main_pc = "loop"
    /\ main_i = Len(listdir_img)
    /\ main_pc' = "done"
    /\ UNCHANGED <<mlp_method, output_images, use_feature, listdir_img, main_i,
                   outimg_path, saved, main_exc, mainRest>>

NextPlotMain ==
    \/ ChooseModels
    \/ ProcessImage
    \/ MainReturn

SpecPlotMain == InitPlotMain /\ [][NextPlotMain]_vars

\* ------------------------------------------- main (extract_superpoint)
\* what load_image may yield for a file: an image tensor, or None
load_image == {"image", "None"}

extRest == <<loopVars, sceneVars, poseVars, colmapVars, ckptVars, plotVars, mainVars, elapsedVars>>

InitExtract ==
    /\ targets \in Listings
    /\ loads \in [1..Len(targets) -> load_image]
    /\ ext_i = 0
    /\ printed = <<>> /\ embeddings = <<>>
    /\ ext_pc = "start" /\ ext_exc = ""
    /\ MainIdle
    /\ ExtractOthersIdle

\* lines 47-59: the models are loaded, the output folder is made
LoadModels ==
    /\ ext_pc = "start"
    /\ ext_pc' = "loop"
    /\ UNCHANGED <<targets, loads, ext_i, printed, embeddings, ext_exc,
                   extRest>>

\* the two files written for a target
Embeddings(k, img_name) ==
    <<[file |-> "fmap_CxHxW.pt", of |-> k, name |-> img_name],
      [file |-> "smap_CxH8xW8.pt", of |-> k, name |-> img_name]>>

\* load_image(t).to(args.device): None has no attribute `to`
ToDevice(loaded) == IF loaded = "None" THEN "AttributeError" ELSE "tensor"

\* one turn of the loop over targets (lines 61-89). The image that reaches
\* the test of line 74 is the result of unsqueeze, never None: the "skip"
\* arm is the branch of lines 74-76.
ProcessTarget ==
    /\ ext_pc = "loop"
    /\ ext_i < Len(targets)
    /\ LET k == ext_i + 1
           img_name == ImgName(targets[k])
           image == ToDevice(loads[k])
       IN CASE image = "AttributeError" ->
                 /\ printed' = Append(printed, [text |-> "Processing", of |-> k])
                 /\ ext_exc' = "AttributeError"
                 /\ ext_pc' = "raised"
                 /\ UNCHANGED <<ext_i, embeddings>>
            [] image = "skip" ->
                 /\ printed' = printed \o <<[text |-> "Processing", of |-> k],
                                            [text |-> "Could not load", of |-> k]>>
                 /\ ext_i' = k
                 /\ UNCHANGED <<embeddings, ext_pc, ext_exc>>
            [] image = "tensor" ->
                 /\ printed' = printed \o <<[text |-> "Processing", of |-> k],
                                            [text |-> "shapes", of |-> k]>>
                 /\ embeddings' = embeddings \o Embeddings(k, img_name)
                 /\ ext_i' = k
                 /\ UNCHANGED <<ext_pc, ext_exc>>
    /\ UNCHANGED <<targets, loads, extRest>>

\* the loop is over
ExtractReturn ==
    /\ ext_pc = "loop"
    /\ ext_i = Len(targets)
    /\ ext_pc' = "done"
    /\ UNCHANGED <<targets, loads, ext_i, printed, embeddings, ext_exc,
                   extRest>>

NextExtract ==
    \/ LoadModels
    \/ ProcessTarget
    \/ ExtractReturn

SpecExtract == InitExtract /\ [][NextExtract]_vars

\* ------------------------- get_elapsed_time_for_tag (compute_eval_feature)
\* A wall time is a number of half seconds from 0 to MaxTime. The events of
\* a tag in one file are in the order they were written: one or two of
\* them, the later never before the earlier.
WallTimes == 0..MaxTime
TagEvents ==
    {<<a>> : a \in WallTimes}
        \cup {<<a, b>> : a \in WallTimes, b \in WallTimes}

\* a file under log_dir: another file, an event file without the tag, or an
\* event file with events of the tag
LogFiles ==
    {[event_file |-> FALSE, events |-> <<>>],
     [event_file |-> TRUE, events |-> <<>>]}
        \cup {[event_file |-> TRUE, events |-> e] :
                 e \in {ev \in TagEvents : ev[1] <= ev[Len(ev)]}}

\* tag_name in event_acc.Tags().get('scalars', [])
HasTag(file) == file.event_file /\ Len(file.events) > 0

\* int(timedelta.total_seconds()) of a difference given in half seconds:
\* int() cuts towards zero
Seconds(d) == IF d >= 0 THEN d \div 2 ELSE 0 - ((0 - d) \div 2)

elapsedRest == <<loopVars, sceneVars, poseVars, colmapVars, ckptVars, plotVars, mainVars, extVars>>

InitElapsed ==
    /\ walk \in UNION {[1..n -> LogFiles] : n \in 0..MaxLogs}
    /\ start_time = NoTime /\ end_time = NoTime
    /\ walk_i = 0
    /\ elapsed_time = ReturnsNone
    /\ elapsed_pc = "start"
    /\ MainIdle
    /\ ElapsedOthersIdle

\* start_time = ... if start_time is None else start_time
StartTime(events) == IF start_time = NoTime THEN events[1] ELSE start_time

\* one file of the walk (lines 26-40)
ReadEvents ==
    /\ elapsed_pc = "start"
    /\ walk_i < Len(walk)
    /\ LET file == walk[walk_i + 1]
       IN IF HasTag(file)
            THEN /\ start_time' = StartTime(file.events)
                 /\ end_time' = file.events[Len(file.events)]
            ELSE UNCHANGED <<start_time, end_time>>
    /\ walk_i' = walk_i + 1
    /\ UNCHANGED <<walk, elapsed_time, elapsed_pc, elapsedRest>>

\* lines 42-47; a datetime is always true
ElapsedReturn ==
    /\ elapsed_pc = "start"
    /\ walk_i = Len(walk)
    /\ elapsed_time' =
          IF start_time # NoTime /\ end_time # NoTime
            THEN [none |-> FALSE, seconds |-> Seconds(end_time - start_time)]
            ELSE ReturnsNone
    /\ elapsed_pc' = "done"
    /\ UNCHANGED <<walk, start_time, end_time, walk_i, elapsedRest>>

NextElapsed ==
    \/ ReadEvents
    \/ ElapsedReturn

SpecElapsed == InitElapsed /\ [][NextElapsed]_vars

\* ------------------------------------------------------------------ claims
\* a frame has just been appended to the series (last describes it)
Recorded == last.frame > 0

\* the entries of the frame recorded last agree in the prior and final series
FinalIsPrior ==
    /\ rErrs[last.frame] = prior_rErr[last.frame]
    /\ tErrs[last.frame] = prior_tErr[last.frame]

\* the matcher of the frame recorded last returned None or too few pairs
FallbackTrigger ==
    \/ last.ret = "none"
    \/ last.ret = "corr" /\ ~(last.npairs > stop_kpt_num)

FallbackPaths == {"fallback_none", "fallback_few"}

\* C1: for every frame whose matcher result is None or has too few pairs,
\* the values appended to rErrs and tErrs equal the values appended to
\* prior_rErr and prior_tErr for that frame.
C1_FallbackKeepsCoarseError ==
    (Recorded /\ FallbackTrigger) => FinalIsPrior

\* C2: a frame takes the fallback path if and only if the matcher returned
\* None or fewer pairs than stop_kpt_num; a frame with at least stop_kpt_num
\* pairs takes the refined path.
C2_FallbackIffFewerThanMinimum ==
    Recorded =>
        LET fewer == \/ last.ret = "none"
                     \/ last.ret = "corr" /\ last.npairs < stop_kpt_num
        IN /\ (last.path \in FallbackPaths) <=> fewer
           /\ (last.ret = "corr" /\ last.npairs >= stop_kpt_num)
                  => last.path = "refined"

\* C3: after k frames have been processed each of prior_rErr, prior_tErr,
\* rErrs and tErrs has exactly k entries, whichever path each frame took,
\* and the frame recorded last is frame k.
C3_OneEntryPerFrame ==
    /\ Len(prior_rErr) = index
    /\ Len(prior_tErr) = index
    /\ Len(rErrs) = index
    /\ Len(tErrs) = index
    /\ Recorded => last.frame = index

\* C3 witness: two frames recorded, the second one by the refined path
C3_Witness ==
    /\ pc = "loop"
    /\ index = 2
    /\ Len(rErrs) = 2
    /\ last.path = "refined"

\* C4: the final error recorded for a frame was computed while that frame
\* was processed, never while an earlier frame was.
C4_NoStaleFinalError ==
    (Recorded /\ last.path \notin FallbackPaths)
        => last.final_by.frame = last.frame

\* C5: when the pose solver cannot produce a pose the frame is recorded
\* with its final error equal to its prior error; the failure neither ends
\* the run with an exception nor records an error computed from the
\* solver's output.
C5_DegenerateSolveFallsBack ==
    /\ pc = "crashed" => solver_ok
    /\ (Recorded /\ ~last.solver_ok) => FinalIsPrior

\* C6: the pose solver is called with a 3D-point list and a 2D query-point
\* list of equal length whose entries correspond index for index.
C6_SolverInputsPaired ==
    (pc = "unprojected" /\ pnp # "other") =>
        /\ Len(db_world) = Len(q_matched)
        /\ \A i \in 1..Len(db_world) :
             \E j \in 1..Len(result.mkpt1) :
                /\ db_world[i] = WorldPoint(result.mkpt1[j])
                /\ q_matched[i] = result.mkpt0[j]

\* C7: the divisor of the reported mean elapsed time is the number of
\* frames that added their elapsed time to total_elapsed_time.
C7_MeanOverTimedFrames ==
    pc = "done" =>
        /\ mean_elapsed_time.num = total_elapsed_time
        /\ mean_elapsed_time.den = timed_count

\* C8: a frame whose matcher result is None and a frame whose result has too
\* few pairs update the aggregator in the same way: the coarse error goes
\* to all four series and the frame's elapsed time to total_elapsed_time.
C8_OneFallbackTransition ==
    (Recorded /\ FallbackTrigger) =>
        /\ FinalIsPrior
        /\ last.timed = last.elapsed

StepsFallback == <<"coarse", "setview", "render", "match", "fallback">>
StepsRefined ==
    <<"coarse", "setview", "render", "match", "unproject", "solve">>
InFrame ==
    {"frame", "coarse", "viewset", "rendered", "matched", "unprojected",
     "record"}

\* C9: every recorded frame went through coarse pose, one render at the
\* coarse pose, match, then either fallback or unproject and solve; a frame
\* is recorded before any step of the next one.
C9_StepOrder ==
    /\ Recorded => last.steps \in {StepsFallback, StepsRefined}
    /\ pc = "rendered" =>
          render_pose = [R |-> out_pose.R, T |-> C2W_to_W2C(out_pose).t]
    /\ pc \in InFrame => (last = NoLast /\ Len(rErrs) = index)

\* the match_type values the running script configures
Configured ==
    IF variant = "ace" THEN match_type \in 0..4 ELSE match_type \in 0..2

\* C10: for every configured match_type the matcher call returns None or a
\* correspondence set with mkpt0 and mkpt1 of equal length, and no recorded
\* final error was computed by the matcher itself.
C10_UniformMatcher ==
    Configured =>
        /\ pc = "matched" =>
              /\ result.ret \in {"none", "corr"}
              /\ Len(result.mkpt0) = Len(result.mkpt1)
        /\ Recorded => last.final_by.who # "matcher"

\* the camera views[i] holds after update_RT with the coarse pose p
CoarseCamera(p) == [R |-> p.R, T |-> C2W_to_W2C(p).t]

\* C11 (as stated): after a frame is recorded its view still holds the
\* ground-truth pose it held when the dataset was indexed.
C11_ViewKeepsGroundTruth ==
    Recorded => views[last.frame] = CameraOf(loader[last.frame])

\* C11 (amended): after a frame is recorded its view holds the coarse pose
\* (R = out_R, T = t_inv); the views of the frames not yet started still
\* hold their ground-truth pose.
C11_ViewHoldsCoarsePose ==
    /\ Recorded => views[last.frame] = CoarseCamera(out_pose)
    /\ \A i \in 1..NFrames :
          (i > index + 1 \/ (i = index + 1 /\ pc \in {"start", "loop"}))
              => views[i] = CameraOf(loader[i])

\* C11 witness: a recorded frame whose view no longer holds the ground truth
C11_Witness ==
    /\ Recorded
    /\ views[last.frame] # CameraOf(loader[last.frame])
    /\ views[last.frame] = CoarseCamera(out_pose)

\* C12: the ground-truth pose of a frame is handed to the pose-error
\* computation only: it is no argument of the matcher, and every recorded
\* final error comes from the coarse error or from the solver's pose, which
\* are computed without it.
C12_GroundTruthEvaluationOnly ==
    /\ pc = "matched" => ~result.gt_arg
    /\ Recorded => last.final_by.who \in {"nobody", "solver"}

\* C13: a step that ends the run with an exception appends nothing to any
\* of the four series and leaves the entries of the earlier frames as they
\* are.
C13_FailureRecordsNothing ==
    [][(pc' = "crashed" /\ pc # "crashed") =>
          /\ rErrs' = rErrs
          /\ tErrs' = tErrs
          /\ prior_rErr' = prior_rErr
          /\ prior_tErr' = prior_tErr]_vars

\* C13 witness: a collaborator raised while the second frame was processed
C13_Witness ==
    /\ pc = "crashed"
    /\ exc \in {"collaborator", "cv2.error"}
    /\ index = 1
    /\ Len(rErrs) = 1
    /\ Len(prior_rErr) = 1

\* C14: a split without any usable frame ends with a diagnostic and without
\* a summary: the run never ends in an unhandled division by zero, and a
\* split whose only frame got no usable match makes no log_errors call.
C14_NoVacuousSummary ==
    /\ exc # "ZeroDivisionError"
    /\ (NFrames = 1 /\ Recorded /\ FallbackTrigger) => logged = <<>>

\* log_errors has been called once with the prior series and then once with
\* the final series, after every frame of the split was recorded
FlushedOnce ==
    /\ index = NFrames
    /\ Len(logged) = 2
    /\ logged[1].list_text = "prior"
    /\ logged[1].rErr = prior_rErr /\ logged[1].tErr = prior_tErr
    /\ logged[2].list_text = "warp"
    /\ logged[2].rErr = rErrs /\ logged[2].tErr = tErrs
    /\ Len(logged[1].rErr) = NFrames /\ Len(logged[1].tErr) = NFrames
    /\ Len(logged[2].rErr) = NFrames /\ Len(logged[2].tErr) = NFrames

\* C15: log_errors is called exactly once for the prior series and exactly
\* once for the final series, only after the last frame was recorded and
\* with one entry per processed frame; nothing is persisted before the loop
\* over the frames has finished, neither a log nor any other file.
C15_FlushOnceNothingBefore ==
    /\ pc = "done" => FlushedOnce
    /\ pc # "done" => logged = <<>> /\ ~last.saved

\* C15 (amended): the two log_errors calls are as stated and no error series
\* is persisted before the loop has finished; the only file written inside
\* the loop is the match image of a refined frame when save_match is set.
C15_FlushOnceAtEnd ==
    /\ pc = "done" => FlushedOnce
    /\ pc # "done" => logged = <<>>
    /\ last.saved => save_match /\ last.path = "refined"

\* C15 witness: a split of two frames was flushed, its final series differs
\* from its prior series and its rotation errors from its translation
\* errors, and the last frame wrote a match image inside the loop
C15_Witness ==
    /\ pc = "done"
    /\ NFrames = 2
    /\ Len(logged) = 2
    /\ rErrs # prior_rErr
    /\ prior_rErr # prior_tErr
    /\ last.saved

\* s is a prefix of t
IsPrefix(s, t) ==
    /\ Len(s) <= Len(t)
    /\ \A i \in 1..Len(s) : t[i] = s[i]

\* C16: the four error series are append-only: every step leaves each
\* series as a prefix of its next value, so no entry of an earlier frame is
\* modified, reordered or removed while a later frame is processed.
C16_SeriesAppendOnly ==
    [][/\ IsPrefix(prior_rErr, prior_rErr')
       /\ IsPrefix(prior_tErr, prior_tErr')
       /\ IsPrefix(rErrs, rErrs')
       /\ IsPrefix(tErrs, tErrs')]_vars

\* C16 witness: a second frame was appended by a fallback branch after a
\* first frame with a different coarse error
C16_Witness ==
    /\ index = 2
    /\ Recorded
    /\ last.path \in FallbackPaths
    /\ Len(rErrs) = 2
    /\ rErrs[1] # rErrs[2]

\* a is before b in the order the test cameras are fixed in: by image
\* name, and by file name among cameras of one image name
CamBefore(a, b) ==
    \/ StrLess(a.image_name, b.image_name)
    \/ a.image_name = b.image_name /\ StrLess(a.image_path, b.image_path)

\* C18: with shuffle=False and view_num=None the test cameras are one
\* camera per listed file, in ascending image_name order, in an order that
\* the listing order of the folder has no part in; localize_set pairs the
\* i-th loader item with the i-th of these cameras.
C18_FixedEnumerationOrder ==
    (~shuffle /\ view_num = 0) =>
        /\ scene_pc = "loaded" =>
              /\ {test_cameras[i].image_path : i \in 1..Len(test_cameras)}
                     = {listdir_test[i] : i \in 1..Len(listdir_test)}
              /\ Len(test_cameras) = Len(listdir_test)
              /\ \A i, j \in 1..Len(test_cameras) :
                    i < j =>
                       /\ ~StrLess(test_cameras[j].image_name,
                                   test_cameras[i].image_name)
                       /\ CamBefore(test_cameras[i], test_cameras[j])
        /\ \A k \in 1..Len(visited) :
              /\ visited[k].index = k - 1
              /\ visited[k].view = test_cameras[k]

\* C18 witness: three files listed out of file-name order and out of
\* image-name order, all three visited
C18_Witness ==
    /\ ~shuffle /\ view_num = 0
    /\ scene_pc = "loaded"
    /\ listdir_test = <<<<"b", ".png">>, <<"a", ".png">>,
                        <<"a", "-", "b", ".png">>>>
    /\ Len(visited) = 3

\* C19: the inlier count of the coarse pose steers nothing: whatever it is,
\* the frame can take the view update, the render and the match, and every
\* recorded frame was rendered and matched and has the error of its coarse
\* pose in the prior series.
C19_CoarsePoseIsFloor ==
    /\ pc = "coarse" => ENABLED UpdateRT
    /\ pc = "viewset" => ENABLED Render
    /\ pc = "rendered" => ENABLED Match
    /\ Recorded =>
          /\ last.inlier_count \in InlierVals
          /\ Len(last.steps) >= 4
          /\ SubSeq(last.steps, 1, 4) =
                 <<"coarse", "setview", "render", "match">>
          /\ prior_rErr[last.frame] =
                 calculate_pose_errors_ace(loader[last.frame], out_pose).rot
          /\ prior_tErr[last.frame] =
                 calculate_pose_errors_ace(loader[last.frame], out_pose).trans

\* C19 witness: a frame whose coarse pose had no inlier was refined
C19_Witness ==
    /\ Recorded
    /\ last.inlier_count = 0
    /\ last.path = "refined"
    /\ last.solver_ok

\* the three solver strategies of args.pnp
Strategies == {"iters", "epnp", "pycolmap"}

\* the ground-truth world-to-camera pose of the frame recorded last
GtW2C == C2W_to_W2C(loader[last.frame])

\* C20: with each of the three strategies the solve step ends on no unbound
\* or malformed R_final, and a refined frame hands to the error computation
\* a rotation matrix and a translation assigned by the solver of that
\* frame, both world-to-camera: the recorded final error is the distance of
\* that pose from the ground-truth world-to-camera pose, and it is zero
\* when the solver arrives at the ground truth.
C20_NormalizedSolverOutput ==
    pnp \in Strategies =>
        /\ (pc = "crashed" /\ steps # <<>>
                /\ steps[Len(steps)] = "unproject") => exc = "cv2.error"
        /\ (Recorded /\ last.path = "refined") =>
              /\ R_final.form = "mat"
              /\ last.final_by = [frame |-> last.frame, who |-> "solver"]
              /\ rErrs[last.frame] = RotErr(R_final.a, GtW2C.R)
              /\ tErrs[last.frame] = TransErr(t_final, GtW2C.t)
              /\ ([R |-> R_final.a, t |-> t_final] = GtW2C =>
                     rErrs[last.frame] = 0 /\ tErrs[last.frame] = 0)

\* C20 witness: the second frame of a split refined by the pycolmap
\* strategy, its solver pose away from the ground truth
C20_Witness ==
    /\ pnp = "pycolmap"
    /\ Recorded
    /\ last.path = "refined"
    /\ last.frame = 2
    /\ rErrs[2] > 0

\* C21: for every pose with a rotation (orthonormal, determinant +1) the
\* conversion returns a pose whose rotation is a rotation, whose product
\* with the input is the identity on either side, and whose own conversion
\* is the input again; on planar poses the inline conversion of
\* localize_set returns the same pose.
C21_ConversionKeepsRigid ==
    /\ pose_pc \in {"converted", "back"} =>
          /\ IsRotation(T_cw.R)
          /\ IsRotation(T_wc.R)
          /\ PoseMul(T_wc, T_cw) = EyePose
          /\ PoseMul(T_cw, T_wc) = EyePose
          /\ IsPlanar(T_cw) => Planar(C2W_to_W2C(PlanarOf(T_cw))) = T_wc
    /\ pose_pc = "back" => T_back = T_cw

\* C21 witness: a pose that rotates and translates, and is not its own
\* inverse, was converted twice
C21_Witness ==
    /\ pose_pc = "back"
    /\ T_cw.R # Eye
    /\ T_cw.t # ZeroVec
    /\ T_wc # T_cw

\* readSplitInfo has got past the subsampling and built its lists
CamsRead == scene_pc \in {"read", "sorted", "shuffled", "loaded"}

\* C22: with 1 <= view_num <= number of test images the subsampling raises
\* no ValueError, the test list has exactly view_num cameras, and the train
\* list has view_num cameras, or every train image if test_only_view_num.
C22_SubsampleCount ==
    (view_num >= 1 /\ view_num <= Len(listdir_test)) =>
        /\ scene_exc # "ValueError"
        /\ CamsRead =>
              /\ Len(test_cam_infos_unsorted) = view_num
              /\ Len(train_views) =
                     IF test_only_view_num THEN n_train ELSE view_num

\* the rank of a file in the sorted listing of the test image folder
ImageRank(view) ==
    Cardinality({j \in 1..Len(listdir_test) :
                    StrLess(listdir_test[j], view)}) + 1

\* every camera of the list carries the pose whose file has, in the sorted
\* listing of test/poses, the rank its image has in the sorted image listing
Paired(cam_infos) ==
    \A i \in 1..Len(cam_infos) :
        cam_infos[i].w2c = ImageRank(cam_infos[i].image_path)

\* C23: image and pose stay paired by rank: after the subsampling the kept
\* views and the kept poses agree place by place, and so does every
\* CameraInfo built from them, before and after the sort by image_name.
C23_ImagePosePaired ==
    /\ scene_pc = "sampled" =>
          \A i \in 1..Len(test_views) :
              i <= Len(w2cs_test) => w2cs_test[i] = ImageRank(test_views[i])
    /\ CamsRead => Paired(test_cam_infos_unsorted)
    /\ scene_pc \in {"sorted", "shuffled", "loaded"} => Paired(test_cam_infos)

\* C23 witness: four images, every second one kept, and the two cameras
\* built from them change places in the sort by image_name
C23_Witness ==
    /\ scene_pc = "sorted"
    /\ view_num = 2
    /\ Len(listdir_test) = 4
    /\ Len(test_cam_infos) = 2
    /\ test_cam_infos[1].w2c = 3
    /\ test_cam_infos[2].w2c = 1
\* the places of camera c in the list s
Places(s, c) == {i \in 1..Len(s) : s[i] = c}

\* colmap_cam_infos holds the cameras readColmapCameras returned, ordered by name
NameSorted ==
    /\ Len(colmap_cam_infos) = Len(cam_infos_unsorted)
    /\ \A i \in 1..Len(cam_infos_unsorted) :
          Cardinality(Places(colmap_cam_infos, cam_infos_unsorted[i])) = 1
    /\ \A i, j \in 1..Len(colmap_cam_infos) :
          i < j => ~StrLess(colmap_cam_infos[j].image_name, colmap_cam_infos[i].image_name)

\* C24: with eval=True and view_num=None the name-sorted cameras are split
\* into two lists that hold every camera once between them: the test list is
\* the cameras at the sorted indices idx (from 0) with idx % llffhold = 2, in
\* that order, the train list is all the others, in that order, and the
\* first camera is never a test camera.
C24_EvalSplitIsPartition ==
    (colmap_pc = "split" /\ eval /\ colmap_view_num = NoViewNum) =>
        /\ NameSorted
        /\ \A i \in 1..Len(colmap_cam_infos) :
              IF (i - 1) % llffhold = 2
                THEN /\ Cardinality(Places(colmap_test_cam_infos, colmap_cam_infos[i])) = 1
                     /\ Places(train_cam_infos, colmap_cam_infos[i]) = {}
                ELSE /\ Cardinality(Places(train_cam_infos, colmap_cam_infos[i])) = 1
                     /\ Places(colmap_test_cam_infos, colmap_cam_infos[i]) = {}
        /\ Len(train_cam_infos) + Len(colmap_test_cam_infos) = Len(colmap_cam_infos)
        /\ \A i, j \in 1..Len(colmap_cam_infos) :
              i < j =>
                 /\ \A a \in Places(colmap_test_cam_infos, colmap_cam_infos[i]),
                       b \in Places(colmap_test_cam_infos, colmap_cam_infos[j]) : a < b
                 /\ \A a \in Places(train_cam_infos, colmap_cam_infos[i]),
                       b \in Places(train_cam_infos, colmap_cam_infos[j]) : a < b
        /\ Places(colmap_test_cam_infos, colmap_cam_infos[1]) = {}

\* six cameras not in name order, split with llffhold 3: two test cameras
C24_Witness ==
    /\ colmap_pc = "split" /\ eval /\ colmap_view_num = NoViewNum
    /\ llffhold = 3
    /\ Len(colmap_cam_infos) = 6
    /\ colmap_cam_infos # cam_infos_unsorted
    /\ Len(colmap_test_cam_infos) = 2
    /\ Len(train_cam_infos) = 4
\* a file of the model directory was written by this construction
Written(f) == f.state = "written"

\* C25: a Scene built with a truthy loaded iteration never writes input.ply
\* or cameras.json and, once built, has loaded the gaussians from the
\* point cloud of that iteration; a Scene built with no loaded iteration
\* has copied the source ply to input.ply, written cameras.json with the
\* ids 0..n-1, the test cameras before the train cameras, and created the
\* gaussians from the point cloud.
C25_LoadedSceneWritesNothing ==
    /\ Truthy(loaded_iter) =>
          ~Written(model_dir.input_ply) /\ ~Written(model_dir.cameras_json)
    /\ ckpt_pc = "done" =>
          IF Truthy(loaded_iter)
            THEN gaussians = [op |-> "load_ply", path |-> loaded_iter]
            ELSE LET js == model_dir.cameras_json.data
                     n_test == Len(scene_info.test_cameras)
                 IN /\ model_dir.input_ply =
                          [state |-> "written", data |-> <<"ply_path">>]
                    /\ Written(model_dir.cameras_json)
                    /\ Len(js) = n_test + Len(scene_info.train_cameras)
                    /\ \A k \in 1..Len(js) :
                          /\ js[k].id = k - 1
                          /\ js[k].cam \in (IF k <= n_test THEN TestCams
                                                        ELSE TrainCams)
                          /\ \A j \in 1..Len(js) : j # k => js[j].cam # js[k].cam
                    /\ gaussians = [op |-> "create_from_pcd", path |-> 0]

\* a Scene built on the latest saved iteration in a directory that holds the
\* files of the training run
C25_Witness ==
    /\ ckpt_pc = "done"
    /\ load_iteration = 0 - 1 /\ loaded_iter = MaxIter
    /\ model_dir = [input_ply |-> OldFile, cameras_json |-> OldFile]
    /\ gaussians.op = "load_ply"
    /\ Len(scene_info.test_cameras) = 2
\* pixel (y, x) lies in the 2x2 block of some keypoint
InBlock(y, x) ==
    \E k \in 1..Len(kpts), dy, dx \in {0, 1} :
        y = Floor(kpts[k].y) + dy /\ x = Floor(kpts[k].x) + dx

\* C26: when plot_points has ended, every pixel of the image that lies in
\* the 2x2 block at (floor(y), floor(x)) of a keypoint is 1 in channel 0 and
\* 0 in the other channels, and every other pixel is as it was.
C26_MarksExactlyBlocks ==
    plot_pc \in {"done", "raised"} =>
        \A c \in DOMAIN img :
            \A y \in DOMAIN img[c] :
                \A x \in DOMAIN img[c][y] :
                    img[c][y][x] =
                        IF InBlock(y, x)
                          THEN (IF c = 0 THEN 1 ELSE 0)
                          ELSE OldPixel

\* the same restricted to images of one or three channels
C26_OneOrThreeChannels == img_shape[1] # 2 => C26_MarksExactlyBlocks
\* the writes of one kind of file
SavedOf(kind) == {k \in 1..Len(saved) : saved[k].file = kind}

\* C27: a run of main without --output_images (and with the default
\* extractor) ends without an exception, having written a score map for
\* every image of the folder, a feature map for every image exactly when
\* use_feature is set, and no visualisation image.
C27_ExtractionWithoutImageOutput ==
    (output_images = "" /\ mlp_method = "SP"
        /\ main_pc \in {"done", "raised"}) =>
        /\ main_exc = ""
        /\ main_i = Len(listdir_img)
        /\ \A k \in 1..Len(listdir_img) :
              \E j \in SavedOf("smap.pt") : saved[j].of = ImgName(listdir_img[k])
        /\ Cardinality(SavedOf("smap.pt")) = Len(listdir_img)
        /\ Cardinality(SavedOf("fmap.pt")) =
              (IF use_feature THEN Len(listdir_img) ELSE 0)
        /\ SavedOf("color.png") = {}

\* the same for a run with --output_images, where every image also gets its
\* visualisation
C27_ExtractionWithImageOutput ==
    (output_images # "" /\ mlp_method = "SP"
        /\ main_pc \in {"done", "raised"}) =>
        /\ main_exc = ""
        /\ Cardinality(SavedOf("smap.pt")) = Len(listdir_img)
        /\ Cardinality(SavedOf("color.png")) = Len(listdir_img)
\* C28: when main has ended, no exception was raised and every target was
\* visited; a target for which load_image yielded None has its "Could not
\* load" message and no embedding, every other target has its embeddings.
C28_SkipsUnloadable ==
    ext_pc \in {"done", "raised"} =>
        /\ ext_exc = ""
        /\ ext_i = Len(targets)
        /\ \A k \in 1..Len(targets) :
              IF loads[k] = "None"
                THEN /\ \E j \in 1..Len(printed) :
                           printed[j] = [text |-> "Could not load", of |-> k]
                     /\ \A j \in 1..Len(embeddings) : embeddings[j].of # k
                ELSE \E j \in 1..Len(embeddings) : embeddings[j].of = k

\* the same for a folder whose files all load
C28_AllLoadable ==
    (\A k \in 1..Len(targets) : loads[k] = "image") => C28_SkipsUnloadable
\* the wall times of all events of the tag, over all event files
TagTimes ==
    UNION {{walk[k].events[j] : j \in 1..Len(walk[k].events)} :
              k \in {i \in 1..Len(walk) : HasTag(walk[i])}}

Earliest == CHOOSE t \in TagTimes : \A u \in TagTimes : t <= u
Latest == CHOOSE t \in TagTimes : \A u \in TagTimes : u <= t

\* C29: get_elapsed_time_for_tag returns None exactly when no event file
\* holds the tag; otherwise it returns a number of seconds that is not
\* negative and is the whole seconds between the earliest and the latest
\* event of the tag over all event files, whatever the order of the walk.
C29_ElapsedIsSpanOfTag ==
    elapsed_pc = "done" =>
        /\ elapsed_time.none <=> TagTimes = {}
        /\ ~elapsed_time.none =>
              /\ elapsed_time.seconds >= 0
              /\ elapsed_time.seconds = Seconds(Latest - Earliest)

\* the same for a log directory with at most one event file of the tag
C29_OneTaggedFile ==
    Cardinality({i \in 1..Len(walk) : HasTag(walk[i])}) <= 1
        => C29_ElapsedIsSpanOfTag
====
